---- MODULE Spec2Model ----
(***************************************************************************)
(* A model of the voice session runtime of the Harmony desktop client      *)
(* (apps/desktop/src-tauri/src/core/voice).  The module holds several      *)
(* specifications over one set of variables, one per subsystem:            *)
(*                                                                         *)
(*   SpecJitter   the per-speaker jitter buffer: queue_inbound_voice and   *)
(*                collect_decode_actions on one InboundVoiceStream         *)
(*   SpecUdp      the UDP voice path of one MediaRuntime: decrypt          *)
(*                failures, the degraded window, the choice between UDP    *)
(*                and the TCP tunnel for outbound voice, UDP pings         *)
(*   SpecWorkerFair  the life of run_voice_worker: connect, backoff, the   *)
(*                select loop, commands and cancellation, with the         *)
(*                fairness of the worker's own steps                       *)
(*   SpecSelf     the shared SelfEvent during one connection: inbound      *)
(*                control packets, the media tick's transmitting flag,     *)
(*                and the UI command handlers of mod.rs                    *)
(*   SpecCalls    single calls of reconnect_delay, of                      *)
(*                ProtocolRoster::apply_user_state, of the CryptSetup arm  *)
(*                of handle_control_packet, of enqueue_soundboard_samples, *)
(*                of should_conceal_gap, of derive_auth_profile with the   *)
(*                Authenticate message, and of is_speaking on a sequence   *)
(*                of levels                                                *)
(*   SpecJoin     the default-channel join of one connection               *)
(*   SpecInbound  the inbound streams and decoders of a MediaRuntime and   *)
(*                the reaping of idle streams                              *)
(*   SpecPlayback the output queue, push_mono_48k and the output callback  *)
(*   SpecCapture  the input callback and its channel                       *)
(*   SpecAdapt    adapt_codec_if_needed on CodecTuning and JitterTuning    *)
(*   SpecTx       the transmit side of a MediaRuntime: capture and         *)
(*                soundboard queues, the gate, pump_capture_and_send, the  *)
(*                transmitting flag across reconnects and the exit         *)
(*                                                                         *)
(* A specification leaves the variables of the other subsystems at their   *)
(* initial values.                                                         *)
(***************************************************************************)
EXTENDS Integers, Sequences, FiniteSets, TLC

VARIABLES
    \* ---- InboundVoiceStream (client.rs 604-611) and its MediaRuntime context
    stream_present,          \* the session has an entry in inbound_streams
    expected_seq,            \* Option<u64>; NoSeq models None
    started,                 \* bool
    buffered,                \* the keys of BTreeMap<u64, Vec<u8>>
    jitter_tuning,           \* MediaRuntime.jitter_tuning
    rx_late_frames_dropped,  \* quality_snapshot.rx_late_frames_dropped
    actions,                 \* the Vec<DecodeAction> returned by the latest drain
    drain_diverged,          \* "no", or why the latest drain does not return
    last_op,                 \* the operation that produced this state
    \* ---- history variables of the jitter buffer (not program state)
    last_frame_seq,          \* seq of the latest DecodeAction::Frame ever emitted
    seq_wrapped,             \* expected_seq has wrapped around the u64 range
    warmup_run               \* k: the stream is not started and has received
                             \* exactly k packets, consecutive and in order;
                             \* NotWarmup otherwise

VARIABLES
    \* ---- MediaRuntime, the UDP voice path (client.rs 625-656)
    now,                               \* Instant::now(), in milliseconds
    udp_socket,                        \* udp_socket.is_some()
    crypt_state,                       \* crypt_state.is_some()
    udp_consecutive_decrypt_failures,
    udp_degraded_until,                \* Option<Instant>; NoInstant models None
    tx_packets_sent_udp,               \* quality_snapshot.tx_packets_sent_udp
    tx_packets_sent_tcp,               \* quality_snapshot.tx_packets_sent_tcp
    session_error,                     \* the inner loop ended with an Err
    udp_op,                            \* the latest operation and what it put on the wire
    \* ---- history variables of the UDP path (not program state)
    failures_in_a_row,                 \* decrypt failures since the latest successful
                                       \* decrypt or decrypt-caused degradation
    degrade_entered_at                 \* `now` of the latest degrade_udp_path call

VARIABLES
    \* ---- run_voice_worker and VoiceService (client.rs 235-288, 1675-1868)
    pc,                     \* where the worker is
    should_exit,
    reconnect_attempt,
    has_connected_once,
    latest_reason,          \* latest_reason.is_some()
    command_queue,          \* commands sent on the channel and not yet received
    command_tx,             \* VoiceService.command_tx.is_some()
    connection_state,       \* the state of the latest connection event
    metrics_connected,      \* quality_metrics.connected
    disconnecting,          \* VoiceService::disconnect is awaiting the worker
    backoff_left,           \* seconds left of the sleep of the backoff wait
    \* ---- history variable of the worker (not program state)
    failed_attempts         \* attempts that ended in an error so far

backoff_vars == <<backoff_left, failed_attempts>>

worker_vars == <<pc, should_exit, reconnect_attempt, has_connected_once,
                 latest_reason, command_queue, command_tx, connection_state,
                 metrics_connected, disconnecting, backoff_vars>>

udp_vars == <<now, udp_socket, crypt_state, udp_consecutive_decrypt_failures,
              udp_degraded_until, tx_packets_sent_udp, tx_packets_sent_tcp,
              session_error, udp_op, failures_in_a_row, degrade_entered_at>>

jitter_vars == <<stream_present, expected_seq, started, buffered, jitter_tuning,
                 rx_late_frames_dropped, actions, drain_diverged, last_op,
                 last_frame_seq, seq_wrapped, warmup_run>>

VARIABLES
    \* ---- the shared SelfEvent, the worker's roster and transmit state
    \* ---- (mod.rs 56-70, client.rs 395-505, 640-641, 2279-2393)
    self_state,             \* shared.self_state: the SelfEvent behind the RwLock
    roster,                 \* the ProtocolRoster of the connection
    handler_pc,             \* where handle_control_packet is
    handler_msg,            \* the UserState being handled
    current_self,           \* the handler's clone of the SelfEvent
    ptt_commands,           \* SetPtt commands sent and not yet received
    transmitting,           \* MediaRuntime.transmitting
    silence_frames,         \* MediaRuntime.silence_frames
    \* ---- history variables (not program state)
    last_write,             \* who wrote which shared event last
    self_op,                \* the operation that ran last
    silent_run,             \* silent frames processed since the last voice frame
    \* ---- one call of a pure function
    call,                   \* the function and its arguments
    result,                 \* what it returned
    \* ---- the default-channel join (client.rs 2395-2425), with its history
    join,                   \* requests sent, the channel the server has the client in
    \* ---- MediaRuntime.inbound_streams and decoders (client.rs 637-638)
    inbound,                \* the streams, the decoders, the clock, what was reaped
    \* ---- OutputPlayback: the queue and the callback's gate (audio_out.rs)
    playback,
    \* ---- the capture callback and its bounded channel (audio_in.rs)
    capture,
    \* ---- CodecTuning, JitterTuning and the adaptation counters (client.rs)
    adapt,
    \* ---- the transmit side of MediaRuntime: capture, soundboard, gate (client.rs)
    tx

self_vars == <<self_state, roster, handler_pc, handler_msg, current_self,
               ptt_commands, transmitting, silence_frames, last_write, self_op,
               silent_run>>

call_vars == <<call, result>>

media_vars == <<join, inbound, playback, capture, adapt, tx>>

app_vars == <<self_vars, call_vars, media_vars>>

voice_vars == <<jitter_vars, udp_vars, worker_vars, media_vars>>

vars == <<jitter_vars, udp_vars, worker_vars, app_vars>>

(***************************************************************************)
(* Program constants.                                                      *)
(***************************************************************************)
OPUS_SEQ_STEP == 960
RX_JITTER_TARGET_MIN == 2
RX_JITTER_TARGET_MAX == 8
RX_JITTER_MAX_MIN == 4
RX_JITTER_MAX_MAX == 16
RX_GAP_PLC_TRIGGER_FRAMES == 2
UDP_DECRYPT_FAILURE_THRESHOLD == 12
UDP_DEGRADED_WINDOW_MS == 10000
VOICE_HANGOVER_FRAMES == 4
MAX_BADGE_CODES_PER_USER == 5

(***************************************************************************)
(* Bounds of the model.                                                    *)
(***************************************************************************)
\* Sequence numbers are u64 in the program; the model keeps the wrap-around
\* arithmetic at a width of SeqBits bits.
SeqBits == 13
\* rx_late_frames_dropped is counted up to this value.
MaxLate == 1

\* The clock advances MaxClockTicks times, half a degraded window each time.
MaxClockTicks == 3
\* At most this many voice packets are sent.
MaxTxPackets == 2
\* failures_in_a_row is counted up to this value.
MaxFailuresInARow == 12
\* At most this many commands other than Disconnect wait in the channel.
MaxQueued == 1
\* reconnect_attempt is counted up to this value.
MaxAttempts == 2

SeqModulus == 2 ^ SeqBits

NoSeq == -1
NoInstant == -1
NotWarmup == -1

\* The largest multiple of the sequence step below the modulus, and the
\* value expected_seq takes when it advances from there.
LastAlignedSeq == ((SeqModulus - 1) \div OPUS_SEQ_STEP) * OPUS_SEQ_STEP
FirstWrappedSeq == (LastAlignedSeq + OPUS_SEQ_STEP) % SeqModulus

\* Sequence numbers a packet may carry: consecutive frames of a talk spurt,
\* frames after a loss, a frame off the 960 grid, the last frame before the
\* u64 range ends and the frame that follows it.
ArrivalSeqs == {0, 960, 1920, 2880, 4800, 7680, 1000, LastAlignedSeq, FirstWrappedSeq}

\* voice_quality.jitter_target_frames / jitter_max_frames of the config.
ConfigJitterTargets == {2, 4}
ConfigJitterMaxes == {4, 10}

(***************************************************************************)
(* Integer helpers of the Rust standard library.                           *)
(***************************************************************************)
clamp(x, lo, hi) == IF x < lo THEN lo ELSE IF x > hi THEN hi ELSE x

wrapping_add(a, b) == (a + b) % SeqModulus

saturating_sub(a, b) == IF a >= b THEN a - b ELSE 0

SetMin(S) == CHOOSE x \in S : \A y \in S : x <= y

(***************************************************************************)
(* JitterTuning::new_from_config                                           *)
(***************************************************************************)
JitterTuning_new_from_config(cfg_target, cfg_max) ==
    LET target == clamp(cfg_target, RX_JITTER_TARGET_MIN, RX_JITTER_TARGET_MAX)
        max0 == clamp(cfg_max, RX_JITTER_MAX_MIN, RX_JITTER_MAX_MAX)
        max_frames == IF max0 <= target
                      THEN clamp(target + 2, RX_JITTER_MAX_MIN, RX_JITTER_MAX_MAX)
                      ELSE max0
    IN [target_frames |-> target,
        max_frames |-> max_frames,
        gap_plc_trigger_frames |-> RX_GAP_PLC_TRIGGER_FRAMES]

(***************************************************************************)
(* quality.rs: should_conceal_gap                                          *)
(***************************************************************************)
\* A should_conceal_gap that needs more than max_frames buffered.
should_conceal_gap_above_max(buffered_len, gap_frames, force_gap_conceal, target_frames, max_frames, gap_plc_trigger_frames) ==
    \/ buffered_len > max_frames
    \/ (buffered_len >= target_frames /\ gap_frames >= gap_plc_trigger_frames)
    \/ (force_gap_conceal /\ gap_frames >= 1)

should_conceal_gap_force2(buffered_len, gap_frames, force_gap_conceal, target_frames, max_frames, gap_plc_trigger_frames) ==
    \/ buffered_len >= max_frames
    \/ (buffered_len >= target_frames /\ gap_frames >= gap_plc_trigger_frames)
    \/ (force_gap_conceal /\ gap_frames >= 2)

should_conceal_gap(buffered_len, gap_frames, force_gap_conceal, target_frames, max_frames, gap_plc_trigger_frames) ==
    \/ buffered_len >= max_frames
    \/ (buffered_len >= target_frames /\ gap_frames >= gap_plc_trigger_frames)
    \/ (force_gap_conceal /\ gap_frames >= 1)

(***************************************************************************)
(* DecodeAction                                                            *)
(***************************************************************************)
Frame(seq) == [kind |-> "Frame", seq |-> seq]
ConcealLoss == [kind |-> "ConcealLoss"]

\* The sequence numbers of the Frame actions of a list, in order.
RECURSIVE FrameSeqs(_)
FrameSeqs(acts) ==
    IF acts = <<>> THEN <<>>
    ELSE IF Head(acts).kind = "Frame"
         THEN <<Head(acts).seq>> \o FrameSeqs(Tail(acts))
         ELSE FrameSeqs(Tail(acts))

(***************************************************************************)
(* collect_decode_actions.  One evaluation of DrainLoop is one pass of the *)
(* `loop`: s is the stream, acts the actions pushed so far, wrapped tells  *)
(* whether expected_seq wrapped during this call, run counts the passes    *)
(* that concealed since a frame was last popped.                           *)
(*                                                                         *)
(* A gap inside the sequence range is at most ConcealRunLimit frames wide, *)
(* so a longer run of concealments is one that the rule                    *)
(* buffered_len >= max_frames keeps going although no buffered key lies    *)
(* ahead on the 960 grid.  Such a call does not return: it ends only when  *)
(* expected_seq, after going around the whole u64 range (more than 10^16   *)
(* passes, each pushing an action), meets a buffered key ("range"), and    *)
(* it never ends when no buffered key is congruent to expected_seq modulo  *)
(* gcd(960, 2^64) ("cycle").                                               *)
(***************************************************************************)
ConcealRunLimit == SeqModulus \div OPUS_SEQ_STEP

RECURSIVE GCD(_, _)
GCD(a, b) == IF b = 0 THEN a ELSE GCD(b, a % b)

\* No value expected_seq ever takes from `expected` on is a buffered key.
NeverMeetsKey(expected, keys) ==
    \A k \in keys : (k - expected) % GCD(OPUS_SEQ_STEP, SeqModulus) # 0

AdvanceExpected_stuck(expected) == expected

AdvanceExpected(expected) == wrapping_add(expected, OPUS_SEQ_STEP)

Returned(s, acts, wrapped) ==
    [stream |-> s, actions |-> acts, wrapped |-> wrapped, diverged |-> "no"]

RECURSIVE DrainLoop(_, _, _, _, _, _)
DrainLoop(s, acts, wrapped, run, force_gap_conceal, tuning) ==
    LET expected == s.expected_seq
        next_wrapped == wrapped \/ (expected + OPUS_SEQ_STEP >= SeqModulus)
    IN
    IF expected = NoSeq THEN Returned(s, acts, wrapped)
    ELSE IF expected \in s.buffered
    THEN DrainLoop([s EXCEPT !.buffered = @ \ {expected},
                             !.expected_seq = AdvanceExpected(expected)],
                   Append(acts, Frame(expected)), next_wrapped, 0,
                   force_gap_conceal, tuning)
    ELSE IF s.buffered = {} THEN Returned(s, acts, wrapped)
    ELSE LET next_seq == SetMin(s.buffered)
             gap_frames == saturating_sub(next_seq, expected) \div OPUS_SEQ_STEP
             should_conceal == should_conceal_gap(Cardinality(s.buffered), gap_frames,
                                                  force_gap_conceal,
                                                  tuning.target_frames,
                                                  tuning.max_frames,
                                                  tuning.gap_plc_trigger_frames)
         IN IF ~should_conceal THEN Returned(s, acts, wrapped)
            ELSE IF run >= ConcealRunLimit
            THEN [stream |-> s, actions |-> acts, wrapped |-> wrapped,
                  diverged |-> IF NeverMeetsKey(expected, s.buffered)
                               THEN "cycle" ELSE "range"]
            ELSE DrainLoop([s EXCEPT !.expected_seq = AdvanceExpected(expected)],
                           Append(acts, ConcealLoss), next_wrapped, run + 1,
                           force_gap_conceal, tuning)

WarmedUp_late(buffered_len, target_frames) == buffered_len > target_frames

WarmedUp(buffered_len, target_frames) == buffered_len >= target_frames

collect_decode_actions(s, force_gap_conceal, tuning) ==
    LET s1 == IF ~s.started /\ WarmedUp(Cardinality(s.buffered), tuning.target_frames)
              THEN [s EXCEPT !.started = TRUE]
              ELSE s
    IN IF ~s1.started
       THEN Returned(s1, <<>>, FALSE)
       ELSE DrainLoop(s1, <<>>, FALSE, 0, force_gap_conceal, tuning)

Stream == [expected_seq |-> expected_seq, started |-> started, buffered |-> buffered]

(***************************************************************************)
(* SpecJitter                                                              *)
(***************************************************************************)
\* MediaRuntime::new leaves the path not degraded, without crypt state.
(***************************************************************************)
(* The roster and the SelfEvent.  A protobuf message field is the pair of  *)
(* has_x() and get_x(), get_x() being the default when the field is not    *)
(* carried.  A comment is what strip_prefix and split(',') see of it:       *)
(* whether it begins with HARMONY_BADGES_COMMENT_PREFIX and the codes that  *)
(* follow.                                                                  *)
(***************************************************************************)
Sessions == {1, 2}
NoSession == 0 - 1
NoChannel == 0 - 1

SelfEvent(muted, deafened, ptt_enabled, is_transmitting) ==
    [muted |-> muted, deafened |-> deafened, ptt_enabled |-> ptt_enabled,
     transmitting |-> is_transmitting]

DefaultSelfEvent == SelfEvent(FALSE, FALSE, FALSE, FALSE)

Range(seq) == {seq[i] : i \in 1..Len(seq)}

\* raw.trim().to_ascii_lowercase() on the badge codes used here.
TrimLower(raw) ==
    CASE raw = "A" -> "a"
      [] raw = " a" -> "a"
      [] OTHER -> raw

\* Not empty and made of lower-case letters, digits, '-' and '_' only.
ValidCode(code) == code \notin {"", "b!"}

RECURSIVE NormalizeFrom(_, _)
NormalizeFrom(raw_codes, normalized) ==
    IF raw_codes = <<>> THEN normalized
    ELSE LET code == TrimLower(Head(raw_codes)) IN
         IF ~ValidCode(code) \/ code \in Range(normalized)
         THEN NormalizeFrom(Tail(raw_codes), normalized)
         ELSE LET next == Append(normalized, code) IN
              IF Len(next) >= MAX_BADGE_CODES_PER_USER
              THEN next
              ELSE NormalizeFrom(Tail(raw_codes), next)

normalize_badge_codes(raw_codes) == NormalizeFrom(raw_codes, <<>>)

Comment(prefixed, codes) == [prefixed |-> prefixed, codes |-> codes]

\* get_comment() of a message that carries none: the empty string.
EmptyComment == Comment(FALSE, <<>>)

\* parse_badge_comment(comment).unwrap_or_default()
parse_badge_comment(comment) ==
    IF comment.prefixed THEN normalize_badge_codes(comment.codes) ELSE <<>>

DefaultName(session) == IF session = 1 THEN "User 1" ELSE "User 2"

User(name, badge_codes, channel_id, muted, deafened) ==
    [present |-> TRUE, name |-> name, badge_codes |-> badge_codes,
     channel_id |-> channel_id, muted |-> muted, deafened |-> deafened]

\* A session the users map has no entry for.
NoUser ==
    [present |-> FALSE, name |-> "", badge_codes |-> <<>>, channel_id |-> 0,
     muted |-> FALSE, deafened |-> FALSE]

ProtocolUser_new(session) == User(DefaultName(session), <<>>, 0, FALSE, FALSE)

\* The channel ids and names of the server; the configured default channel.
ChannelIds == {0, 1}
ChannelNames == {"Root", "Game Night"}
DefaultChannelName == "Game Night"

\* A channel id the channels map has no entry for.
NoChannelName == ""

ProtocolRoster_new ==
    [channels |-> [c \in ChannelIds |-> NoChannelName],
     users |-> [s \in Sessions |-> NoUser], self_session |-> NoSession,
     active_channel_id |-> NoChannel,
     default_channel_name |-> DefaultChannelName,
     default_channel_join_requested |-> FALSE]

Opt(has, value) == [has |-> has, value |-> value]

UserState(session, name, comment, channel_id, mute, self_mute, deaf, self_deaf) ==
    [has_session |-> session.has, session |-> session.value,
     has_name |-> name.has, name |-> name.value,
     has_comment |-> comment.has, comment |-> comment.value,
     has_channel_id |-> channel_id.has, channel_id |-> channel_id.value,
     has_mute |-> mute.has, mute |-> mute.value,
     has_self_mute |-> self_mute.has, self_mute |-> self_mute.value,
     has_deaf |-> deaf.has, deaf |-> deaf.value,
     has_self_deaf |-> self_deaf.has, self_deaf |-> self_deaf.value]

NoBool == Opt(FALSE, FALSE)

\* msgs::UserState::new(): no field is carried.
EmptyUserState ==
    UserState(Opt(FALSE, 0), Opt(FALSE, ""), Opt(FALSE, EmptyComment),
              Opt(FALSE, 0), NoBool, NoBool, NoBool, NoBool)

NextMuted(msg) ==
    (msg.has_mute /\ msg.mute) \/ (msg.has_self_mute /\ msg.self_mute)

NextDeafened(msg) ==
    (msg.has_deaf /\ msg.deaf) \/ (msg.has_self_deaf /\ msg.self_deaf)

\* A variant of SelfEventFor that takes the flags of the user's client from
\* the defaults instead of the current SelfEvent.
SelfEventFor_reset(user, self_event) ==
    SelfEvent(user.muted, user.deafened, FALSE, FALSE)

SelfEventFor(user, self_event) ==
    SelfEvent(user.muted, user.deafened, self_event.ptt_enabled,
              self_event.transmitting)

\* ProtocolRoster::apply_user_state(msg, current_self): the roster after
\* the call, changed, and the Option<SelfEvent>.
apply_user_state(r, msg, self_event) ==
    IF ~msg.has_session
    THEN [roster |-> r, changed |-> FALSE, has_self_event |-> FALSE,
          self_event |-> DefaultSelfEvent]
    ELSE LET session == msg.session
             entry == IF r.users[session].present THEN r.users[session]
                      ELSE ProtocolUser_new(session)
             next_badges == parse_badge_comment(msg.comment)
             user == User(IF msg.has_name THEN msg.name ELSE entry.name,
                          IF msg.has_comment THEN next_badges ELSE entry.badge_codes,
                          IF msg.has_channel_id THEN msg.channel_id
                                                ELSE entry.channel_id,
                          NextMuted(msg),
                          NextDeafened(msg))
             is_self == r.self_session = session
         IN  [roster |-> [r EXCEPT !.users[session] = user,
                                   !.active_channel_id =
                                       IF is_self THEN user.channel_id ELSE @],
              changed |-> user # entry,
              has_self_event |-> is_self,
              self_event |-> IF is_self THEN SelfEventFor(user, self_event)
                             ELSE DefaultSelfEvent]

NoWrite == [by |-> "none", object |-> "none"]
NoCall == [fn |-> "none"]
NoResult == [fn |-> "none"]

\* The SelfEvent and roster before any connection, no call made.
SelfIdle ==
    /\ self_state = DefaultSelfEvent
    /\ roster = ProtocolRoster_new
    /\ handler_pc = "idle"
    /\ handler_msg = EmptyUserState
    /\ current_self = DefaultSelfEvent
    /\ ptt_commands = <<>>
    /\ transmitting = FALSE
    /\ silence_frames = 0
    /\ last_write = NoWrite
    /\ self_op = "new"
    /\ silent_run = VOICE_HANGOVER_FRAMES

\* No channel switch requested; the server has the client in channel 0.
NoJoin == [sent |-> 0, ended |-> FALSE, server_channel |-> 0, target |-> NoChannel]

\* InboundVoiceStream of a session without one.
NoStream ==
    [present |-> FALSE, expected_seq |-> NoSeq, started |-> FALSE, buffered |-> {},
     decoded |-> 0, last_packet_at |-> 0]

\* MediaRuntime::new: no streams, no decoders; the clock and what the last
\* cleanup removed.
NoInbound ==
    [streams |-> [s \in Sessions |-> NoStream], decoders |-> {}, now |-> 0,
     steps |-> 0, reaped |-> {}, ended |-> FALSE]

\* build_output_stream before the first callback: the queue is empty, primed
\* and underflowing are false.  seen_len, last, popped_once and
\* events_since_pop are history.
NoPlayback ==
    [queue |-> 0, primed |-> FALSE, underflowing |-> FALSE, underflow_events |-> 0,
     overflow_dropped_samples |-> 0, cb_pc |-> "idle", push_pc |-> "idle",
     seen_len |-> 0, last |-> "none", popped_once |-> FALSE, events_since_pop |-> 0]

\* start_input_capture: mpsc::channel() is empty, the receiver lives in the
\* InputCapture, the counters are 0.
NoCapture ==
    [queue |-> 0, receiver |-> TRUE, delivered_chunks |-> 0, dropped_chunks |-> 0]

OPUS_BITRATE_MIN_BPS == 32000
OPUS_BITRATE_MAX_BPS == 72000

\* A CodecTuning::new_from_config that takes the configured values as they are.
CodecTuning_new_from_config_unclamped(opus_bitrate_bps, packet_loss_perc) ==
    [baseline_bitrate_bps |-> opus_bitrate_bps,
     current_bitrate_bps |-> opus_bitrate_bps,
     baseline_packet_loss_pct |-> packet_loss_perc,
     current_packet_loss_pct |-> packet_loss_perc]

\* CodecTuning::new_from_config
CodecTuning_new_from_config(opus_bitrate_bps, packet_loss_perc) ==
    LET baseline_bitrate == clamp(opus_bitrate_bps, OPUS_BITRATE_MIN_BPS,
                                  OPUS_BITRATE_MAX_BPS)
        baseline_loss == clamp(packet_loss_perc, 0, 25)
    IN  [baseline_bitrate_bps |-> baseline_bitrate,
         current_bitrate_bps |-> baseline_bitrate,
         baseline_packet_loss_pct |-> baseline_loss,
         current_packet_loss_pct |-> baseline_loss]

\* JitterTuning::new_from_config with the baseline fields.
JitterTuning_with_baseline(cfg_target, cfg_max) ==
    LET tuning == JitterTuning_new_from_config(cfg_target, cfg_max) IN
        [baseline_target_frames |-> tuning.target_frames,
         baseline_max_frames |-> tuning.max_frames,
         target_frames |-> tuning.target_frames,
         max_frames |-> tuning.max_frames]

NoStats == [some |-> FALSE, good |-> 0, late |-> 0, lost |-> 0]

\* MediaRuntime::new: the tunings from the configuration, no last_udp_stats;
\* started (what new computed) and last (the latest adaptation step) are
\* history.
MediaRuntime_new(opus_bitrate_bps, packet_loss_perc, cfg_target, cfg_max) ==
    LET codec == CodecTuning_new_from_config(opus_bitrate_bps, packet_loss_perc)
        jitter == JitterTuning_with_baseline(cfg_target, cfg_max)
    IN  [codec_tuning |-> codec, jitter_tuning |-> jitter, last_udp_stats |-> NoStats,
         started |-> [codec_tuning |-> codec, jitter_tuning |-> jitter],
         last |-> [step |-> "new"]]

\* The tunings of the default configuration.
NoAdapt == MediaRuntime_new(48000, 10, 2, 4)

(***************************************************************************)
(* vad.rs: VoiceActivityDetector.  Levels and thresholds are in            *)
(* thousandths.                                                            *)
(***************************************************************************)
VAD_THRESHOLD == 10

\* VoiceActivityDetector::new(threshold)
VoiceActivityDetector_new(threshold) ==
    [on_threshold |-> threshold, off_threshold |-> (threshold * 7) \div 10,
     hold_frames |-> 3, hold_remaining |-> 0, speaking |-> FALSE]

\* An is_speaking that does not restart the hold on a frame above off_threshold.
is_speaking_hold_not_reset(vad, level) ==
    IF vad.speaking
    THEN IF level >= vad.off_threshold
         THEN [vad |-> vad, speaking |-> TRUE]
         ELSE IF vad.hold_remaining > 0
         THEN [vad |-> [vad EXCEPT !.hold_remaining = @ - 1], speaking |-> TRUE]
         ELSE [vad |-> [vad EXCEPT !.speaking = FALSE], speaking |-> FALSE]
    ELSE IF level >= vad.on_threshold
    THEN [vad |-> [vad EXCEPT !.speaking = TRUE, !.hold_remaining = vad.hold_frames],
          speaking |-> TRUE]
    ELSE [vad |-> vad, speaking |-> FALSE]

\* VoiceActivityDetector::is_speaking: the detector after the call and what
\* it returned.
is_speaking(vad, level) ==
    IF vad.speaking
    THEN IF level >= vad.off_threshold
         THEN [vad |-> [vad EXCEPT !.hold_remaining = vad.hold_frames],
               speaking |-> TRUE]
         ELSE IF vad.hold_remaining > 0
         THEN [vad |-> [vad EXCEPT !.hold_remaining = @ - 1], speaking |-> TRUE]
         ELSE [vad |-> [vad EXCEPT !.speaking = FALSE], speaking |-> FALSE]
    ELSE IF level >= vad.on_threshold
    THEN [vad |-> [vad EXCEPT !.speaking = TRUE, !.hold_remaining = vad.hold_frames],
          speaking |-> TRUE]
    ELSE [vad |-> vad, speaking |-> FALSE]

\* MediaRuntime::new, the transmit side: nothing captured or queued, the
\* gate closed, muted and deafened as in the SelfEvent.  sent is what the
\* latest pump_capture_and_send sent, gated whether it sent a voice frame.
\* With the runtime go the transmitting flag of the shared SelfEvent and
\* whether the worker is in its inner loop ("live") or has returned.
MediaRuntime_tx(input_capture, muted, deafened) ==
    [input_capture |-> input_capture, capture_48k |-> 0, soundboard_queue_48k |-> 0,
     muted |-> muted, deafened |-> deafened,
     vad |-> VoiceActivityDetector_new(VAD_THRESHOLD),
     transmitting |-> FALSE, silence_frames |-> 0,
     sent |-> <<>>, gated |-> FALSE,
     shared_transmitting |-> FALSE, worker |-> "live"]

NoTx == MediaRuntime_tx(TRUE, FALSE, FALSE)

MediaIdle ==
    /\ join = NoJoin
    /\ inbound = NoInbound
    /\ playback = NoPlayback
    /\ capture = NoCapture
    /\ adapt = NoAdapt
    /\ tx = NoTx

AppIdle ==
    /\ SelfIdle
    /\ MediaIdle
    /\ call = NoCall
    /\ result = NoResult

UdpIdle ==
    /\ now = 0
    /\ udp_socket = TRUE
    /\ crypt_state = FALSE
    /\ udp_consecutive_decrypt_failures = 0
    /\ udp_degraded_until = NoInstant
    /\ tx_packets_sent_udp = 0
    /\ tx_packets_sent_tcp = 0
    /\ session_error = FALSE
    /\ udp_op = [op |-> "new"]
    /\ failures_in_a_row = 0
    /\ degrade_entered_at = NoInstant

\* No worker has been spawned.
WorkerIdle ==
    /\ backoff_left = 0
    /\ failed_attempts = 0
    /\ pc = "exited"
    /\ should_exit = FALSE
    /\ reconnect_attempt = 0
    /\ has_connected_once = FALSE
    /\ latest_reason = FALSE
    /\ command_queue = <<>>
    /\ command_tx = FALSE
    /\ connection_state = "Disconnected"
    /\ metrics_connected = FALSE
    /\ disconnecting = FALSE

WorkerJitterTarget == 2
WorkerJitterMax == 4
\* No InboundVoiceStream yet, default tuning.
JitterIdle ==
    /\ stream_present = FALSE
    /\ expected_seq = NoSeq
    /\ started = FALSE
    /\ buffered = {}
    /\ jitter_tuning = JitterTuning_new_from_config(WorkerJitterTarget, WorkerJitterMax)
    /\ rx_late_frames_dropped = 0
    /\ actions = <<>>
    /\ drain_diverged = "no"
    /\ last_op = [op |-> "new"]
    /\ last_frame_seq = NoSeq
    /\ seq_wrapped = FALSE
    /\ warmup_run = 0

InitJitter ==
    /\ AppIdle
    /\ stream_present = FALSE
    /\ expected_seq = NoSeq
    /\ started = FALSE
    /\ buffered = {}
    /\ \E t \in ConfigJitterTargets, m \in ConfigJitterMaxes :
           jitter_tuning = JitterTuning_new_from_config(t, m)
    /\ rx_late_frames_dropped = 0
    /\ actions = <<>>
    /\ drain_diverged = "no"
    /\ last_op = [op |-> "new"]
    /\ last_frame_seq = NoSeq
    /\ seq_wrapped = FALSE
    /\ warmup_run = 0
    /\ UdpIdle
    /\ WorkerIdle

\* MediaRuntime::queue_inbound_voice(session_id, seq_num, frame)
IsLate(seq_num) == expected_seq # NoSeq /\ seq_num < expected_seq

QueueInboundVoice(seq_num) ==
    /\ drain_diverged = "no"
    /\ stream_present' = TRUE
    /\ warmup_run' = IF warmup_run = 0 THEN 1
                     ELSE IF /\ warmup_run > 0
                             /\ seq_num = expected_seq + warmup_run * OPUS_SEQ_STEP
                          THEN warmup_run + 1
                          ELSE NotWarmup
    /\ actions' = <<>>
    /\ IF IsLate(seq_num)
       THEN /\ rx_late_frames_dropped < MaxLate
            /\ rx_late_frames_dropped' = rx_late_frames_dropped + 1
            /\ last_op' = [op |-> "queue", late |-> TRUE]
            /\ UNCHANGED <<expected_seq, buffered>>
       ELSE /\ buffered' = buffered \cup {seq_num}
            /\ expected_seq' = IF expected_seq = NoSeq THEN seq_num ELSE expected_seq
            /\ last_op' = [op |-> "queue", late |-> FALSE]
            /\ UNCHANGED rx_late_frames_dropped
    /\ UNCHANGED <<started, jitter_tuning, drain_diverged, last_frame_seq, seq_wrapped>>

\* A frame of one stream arrives (over either path).
queue_inbound_voice(seq_num) ==
    /\ UNCHANGED app_vars
    /\ QueueInboundVoice(seq_num)
    /\ UNCHANGED udp_vars
    /\ UNCHANGED worker_vars

\* MediaRuntime::drain_inbound_playout, the part that drains one stream:
\* force_gap_conceal is whether last_packet_at is at least one media tick old.
DrainInboundPlayout(force_gap_conceal) ==
    /\ drain_diverged = "no"
    /\ stream_present
    /\ LET r == collect_decode_actions(Stream, force_gap_conceal, jitter_tuning)
           frames == FrameSeqs(r.actions)
       IN /\ drain_diverged' = r.diverged
          /\ expected_seq' = r.stream.expected_seq
          /\ started' = r.stream.started
          /\ buffered' = r.stream.buffered
          /\ actions' = r.actions
          /\ seq_wrapped' = (seq_wrapped \/ r.wrapped)
          /\ last_frame_seq' = IF frames = <<>> THEN last_frame_seq
                               ELSE frames[Len(frames)]
          /\ warmup_run' = IF r.stream.started THEN NotWarmup ELSE warmup_run
    /\ last_op' = [op |-> "drain", force |-> force_gap_conceal,
                    expected |-> expected_seq, warmup |-> warmup_run]
    /\ UNCHANGED <<stream_present, jitter_tuning, rx_late_frames_dropped>>

drain_inbound_playout(force_gap_conceal) ==
    /\ UNCHANGED app_vars
    /\ DrainInboundPlayout(force_gap_conceal)
    /\ UNCHANGED udp_vars
    /\ UNCHANGED worker_vars

NextJitter ==
    \/ \E seq_num \in ArrivalSeqs : queue_inbound_voice(seq_num)
    \/ \E force \in BOOLEAN : drain_inbound_playout(force)

SpecJitter == InitJitter /\ [][NextJitter]_vars

(***************************************************************************)
(* The UDP voice path of MediaRuntime.  The operators below work on the    *)
(* pair t = [failures, until] of udp_consecutive_decrypt_failures and      *)
(* udp_degraded_until.                                                     *)
(***************************************************************************)
ClockStep == UDP_DEGRADED_WINDOW_MS \div 2
UdpArrivalSeqs == {0}

Transport == [failures |-> udp_consecutive_decrypt_failures,
              until |-> udp_degraded_until]

can_send_udp(socket, crypt) == socket /\ crypt

\* MediaRuntime::can_send_udp_voice: the answer and the state it leaves.
can_send_udp_voice(t, socket, crypt, time) ==
    IF ~can_send_udp(socket, crypt) THEN [ok |-> FALSE, t |-> t]
    ELSE IF t.until # NoInstant
         THEN IF time < t.until
              THEN [ok |-> FALSE, t |-> t]
              ELSE [ok |-> TRUE, t |-> [failures |-> 0, until |-> NoInstant]]
         ELSE [ok |-> TRUE, t |-> t]

degrade_udp_path_double(t, time) ==
    [failures |-> 0, until |-> time + 2 * UDP_DEGRADED_WINDOW_MS]

\* MediaRuntime::degrade_udp_path
degrade_udp_path(t, time) ==
    [failures |-> 0, until |-> time + UDP_DEGRADED_WINDOW_MS]

ReachedThreshold_late(failures) == failures > UDP_DECRYPT_FAILURE_THRESHOLD

ReachedThreshold(failures) == ~(failures < UDP_DECRYPT_FAILURE_THRESHOLD)

\* MediaRuntime::mark_udp_decrypt_failure
mark_udp_decrypt_failure(t, time) ==
    LET counted == [t EXCEPT !.failures = @ + 1]
    IN IF ReachedThreshold(counted.failures)
       THEN degrade_udp_path(counted, time)
       ELSE counted

mark_udp_audio_rx_keep(t) == [t EXCEPT !.failures = 0]

\* MediaRuntime::mark_udp_audio_rx
mark_udp_audio_rx(t) == [failures |-> 0, until |-> NoInstant]

\* What send_voice_packet does with one packet: udp_ok and tcp_ok are the
\* outcomes socket.send and sink.send would have.  udp / tcp say what was
\* put on each path: "none", "sent" or "failed".
send_voice_packet_both(t, socket, crypt, time, udp_ok, tcp_ok) ==
    LET can == can_send_udp_voice(t, socket, crypt, time)
    IN [t |-> can.t,
        udp |-> IF can.ok THEN (IF udp_ok THEN "sent" ELSE "failed") ELSE "none",
        tcp |-> IF tcp_ok THEN "sent" ELSE "failed",
        sent_udp |-> IF can.ok /\ udp_ok THEN 1 ELSE 0,
        sent_tcp |-> 1,
        err |-> ~tcp_ok]

send_voice_packet_no_degrade(t, socket, crypt, time, udp_ok, tcp_ok) ==
    LET can == can_send_udp_voice(t, socket, crypt, time)
    IN IF can.ok /\ udp_ok
       THEN [t |-> can.t, udp |-> "sent", tcp |-> "none",
             sent_udp |-> 1, sent_tcp |-> 0, err |-> FALSE]
       ELSE [t |-> can.t,
             udp |-> IF can.ok THEN "failed" ELSE "none",
             tcp |-> IF tcp_ok THEN "sent" ELSE "failed",
             sent_udp |-> 0, sent_tcp |-> 1, err |-> ~tcp_ok]

send_voice_packet(t, socket, crypt, time, udp_ok, tcp_ok) ==
    LET can == can_send_udp_voice(t, socket, crypt, time)
    IN IF can.ok /\ udp_ok
       THEN [t |-> can.t, udp |-> "sent", tcp |-> "none",
             sent_udp |-> 1, sent_tcp |-> 0, err |-> FALSE]
       ELSE [t |-> IF can.ok THEN degrade_udp_path(can.t, time) ELSE can.t,
             udp |-> IF can.ok THEN "failed" ELSE "none",
             tcp |-> IF tcp_ok THEN "sent" ELSE "failed",
             sent_udp |-> 0, sent_tcp |-> 1, err |-> ~tcp_ok]

\* The path is inside a degraded window.
Degraded == udp_degraded_until # NoInstant /\ now < udp_degraded_until

SetTransport(t) ==
    /\ udp_consecutive_decrypt_failures' = t.failures
    /\ udp_degraded_until' = t.until

Live == ~session_error

\* The clock moves on between two steps of the worker.
AdvanceClock ==
    /\ UNCHANGED app_vars
    /\ Live
    /\ now < MaxClockTicks * ClockStep
    /\ now' = now + ClockStep
    /\ UNCHANGED <<udp_socket, crypt_state, udp_consecutive_decrypt_failures,
                   udp_degraded_until, tx_packets_sent_udp, tx_packets_sent_tcp,
                   session_error, udp_op, failures_in_a_row, degrade_entered_at>>
    /\ UNCHANGED jitter_vars
    /\ UNCHANGED worker_vars

\* handle_control_packet, CryptSetup with key, client_nonce and server_nonce
\* of 16 bytes each: apply_crypt_setup installs a crypt state.
InstallCryptState ==
    /\ UNCHANGED app_vars
    /\ Live
    /\ ~crypt_state
    /\ crypt_state' = TRUE
    /\ udp_op' = [op |-> "crypt_setup"]
    /\ UNCHANGED <<now, udp_socket, udp_consecutive_decrypt_failures,
                   udp_degraded_until, tx_packets_sent_udp, tx_packets_sent_tcp,
                   session_error, failures_in_a_row, degrade_entered_at>>
    /\ UNCHANGED jitter_vars
    /\ UNCHANGED worker_vars

\* One pass of the loop of poll_udp_inbound over a datagram that fails to
\* decrypt or to parse.
PollDecryptFailure ==
    /\ UNCHANGED app_vars
    /\ Live
    /\ can_send_udp(udp_socket, crypt_state)
    /\ failures_in_a_row < MaxFailuresInARow
    /\ LET t == mark_udp_decrypt_failure(Transport, now)
           degraded == ReachedThreshold(udp_consecutive_decrypt_failures + 1)
       IN /\ SetTransport(t)
          /\ failures_in_a_row' = IF degraded THEN 0 ELSE failures_in_a_row + 1
          /\ degrade_entered_at' = IF degraded THEN now ELSE degrade_entered_at
          /\ udp_op' = [op |-> "decrypt_failure", degraded |-> degraded,
                        was_degraded |-> Degraded]
    /\ UNCHANGED <<now, udp_socket, crypt_state, tx_packets_sent_udp,
                   tx_packets_sent_tcp, session_error>>
    /\ UNCHANGED jitter_vars
    /\ UNCHANGED worker_vars

\* One pass of that loop over a datagram that decrypts to a Ping: the ping
\* is echoed with send_udp_packet and the result of the send is dropped.
PollPing(udp_ok) ==
    /\ UNCHANGED app_vars
    /\ Live
    /\ can_send_udp(udp_socket, crypt_state)
    /\ udp_consecutive_decrypt_failures' = 0
    /\ failures_in_a_row' = 0
    /\ udp_op' = [op |-> "echo_ping", udp |-> IF udp_ok THEN "sent" ELSE "failed"]
    /\ UNCHANGED <<now, udp_socket, crypt_state, udp_degraded_until,
                   tx_packets_sent_udp, tx_packets_sent_tcp, session_error,
                   degrade_entered_at>>
    /\ UNCHANGED jitter_vars
    /\ UNCHANGED worker_vars

\* One pass of that loop over a datagram that decrypts to Audio:
\* handle_incoming_voice (which queues the frame), then mark_udp_audio_rx.
PollAudio(seq_num) ==
    /\ UNCHANGED app_vars
    /\ Live
    /\ can_send_udp(udp_socket, crypt_state)
    /\ SetTransport(mark_udp_audio_rx([Transport EXCEPT !.failures = 0]))
    /\ failures_in_a_row' = 0
    /\ udp_op' = [op |-> "audio_rx", was_degraded |-> Degraded]
    /\ UNCHANGED <<now, udp_socket, crypt_state, tx_packets_sent_udp,
                   tx_packets_sent_tcp, session_error, degrade_entered_at>>
    /\ QueueInboundVoice(seq_num)
    /\ UNCHANGED worker_vars

\* socket.recv fails with an error other than WouldBlock: poll_udp_inbound
\* returns Err and the inner loop ends.
PollRecvError ==
    /\ UNCHANGED app_vars
    /\ Live
    /\ can_send_udp(udp_socket, crypt_state)
    /\ session_error' = TRUE
    /\ udp_op' = [op |-> "recv_error"]
    /\ UNCHANGED <<now, udp_socket, crypt_state, udp_consecutive_decrypt_failures,
                   udp_degraded_until, tx_packets_sent_udp, tx_packets_sent_tcp,
                   failures_in_a_row, degrade_entered_at>>
    /\ UNCHANGED jitter_vars
    /\ UNCHANGED worker_vars

\* MediaRuntime::send_voice_packet for a voice frame (pump_capture_and_send)
\* or a terminator (send_termination_packet).
SendVoicePacket(kind, udp_ok, tcp_ok) ==
    /\ UNCHANGED app_vars
    /\ Live
    /\ tx_packets_sent_udp + tx_packets_sent_tcp < MaxTxPackets
    /\ LET r == send_voice_packet(Transport, udp_socket, crypt_state, now, udp_ok, tcp_ok)
       IN /\ SetTransport(r.t)
          /\ tx_packets_sent_udp' = tx_packets_sent_udp + r.sent_udp
          /\ tx_packets_sent_tcp' = tx_packets_sent_tcp + r.sent_tcp
          /\ session_error' = r.err
          /\ degrade_entered_at' = IF r.udp = "failed" THEN now ELSE degrade_entered_at
          /\ udp_op' = [op |-> "voice", udp |-> r.udp, tcp |-> r.tcp]
    /\ UNCHANGED <<now, udp_socket, crypt_state, failures_in_a_row>>
    /\ UNCHANGED jitter_vars
    /\ UNCHANGED worker_vars

\* MediaRuntime::send_udp_ping, called on every udp_ping_tick and when
\* ServerSync is handled; both callers drop the result.
SendUdpPing(origin, udp_ok) ==
    /\ UNCHANGED app_vars
    /\ Live
    /\ LET can == can_send_udp_voice(Transport, udp_socket, crypt_state, now)
       IN /\ SetTransport(can.t)
          /\ udp_op' = [op |-> "udp_ping", origin |-> origin,
                        udp |-> IF ~can.ok THEN "none"
                                ELSE IF udp_ok THEN "sent" ELSE "failed"]
    /\ UNCHANGED <<now, udp_socket, crypt_state, tx_packets_sent_udp,
                   tx_packets_sent_tcp, session_error, failures_in_a_row,
                   degrade_entered_at>>
    /\ UNCHANGED jitter_vars
    /\ UNCHANGED worker_vars

\* The ping_tick arm of run_voice_worker: transport_stats (which asks
\* can_send_udp_voice), then send_ping over the control stream.
ControlPing(tcp_ok) ==
    /\ UNCHANGED app_vars
    /\ Live
    /\ LET can == can_send_udp_voice(Transport, udp_socket, crypt_state, now)
       IN SetTransport(can.t)
    /\ session_error' = ~tcp_ok
    /\ udp_op' = [op |-> "control_ping"]
    /\ UNCHANGED <<now, udp_socket, crypt_state, tx_packets_sent_udp,
                   tx_packets_sent_tcp, failures_in_a_row, degrade_entered_at>>
    /\ UNCHANGED jitter_vars
    /\ UNCHANGED worker_vars

\* MediaRuntime::new: create_udp_socket may fail, which leaves no socket.
InitUdp ==
    /\ AppIdle
    /\ now = 0
    /\ udp_socket \in BOOLEAN
    /\ crypt_state = FALSE
    /\ udp_consecutive_decrypt_failures = 0
    /\ udp_degraded_until = NoInstant
    /\ tx_packets_sent_udp = 0
    /\ tx_packets_sent_tcp = 0
    /\ session_error = FALSE
    /\ udp_op = [op |-> "new"]
    /\ failures_in_a_row = 0
    /\ degrade_entered_at = NoInstant
    /\ stream_present = FALSE
    /\ expected_seq = NoSeq
    /\ started = FALSE
    /\ buffered = {}
    /\ jitter_tuning = JitterTuning_new_from_config(4, 10)
    /\ rx_late_frames_dropped = 0
    /\ actions = <<>>
    /\ drain_diverged = "no"
    /\ last_op = [op |-> "new"]
    /\ last_frame_seq = NoSeq
    /\ seq_wrapped = FALSE
    /\ warmup_run = 0
    /\ WorkerIdle

NextUdp ==
    \/ AdvanceClock
    \/ InstallCryptState
    \/ PollDecryptFailure
    \/ \E udp_ok \in BOOLEAN : PollPing(udp_ok)
    \/ \E seq_num \in UdpArrivalSeqs : PollAudio(seq_num)
    \/ PollRecvError
    \/ \E kind \in {"voice", "terminator"}, udp_ok \in BOOLEAN, tcp_ok \in BOOLEAN :
           SendVoicePacket(kind, udp_ok, tcp_ok)
    \/ \E origin \in {"udp_ping_tick", "server_sync"}, udp_ok \in BOOLEAN :
           SendUdpPing(origin, udp_ok)
    \/ \E tcp_ok \in BOOLEAN : ControlPing(tcp_ok)

SpecUdp == InitUdp /\ [][NextUdp]_vars

(***************************************************************************)
(* run_voice_worker and the VoiceService that owns it.  The worker is a    *)
(* sequential task; pc says where it is:                                   *)
(*   "loop_top"    at the test of `while !should_exit`                     *)
(*   "connecting"  awaiting connect_mumble                                 *)
(*   "backoff"     awaiting wait_for_retry_or_disconnect                   *)
(*   "live"        at the select! of the inner loop                        *)
(*   "pump"        in the media_tick arm, drain_inbound_playout returned   *)
(*   "in_drain"    in the media_tick arm, inside a drain_inbound_playout   *)
(*                 that does not return                                    *)
(*   "after_loop"  past the inner loop                                     *)
(*   "final"       past the outer loop                                     *)
(*   "exited"      returned                                                *)
(* The server sends no CryptSetup here, so voice arrives in UDPTunnel      *)
(* packets and poll_udp_inbound returns at once.                           *)
(***************************************************************************)
Commands == {"SetMute", "SetPtt"}
WorkerArrivalSeqs == {0, 5000, 5001, 5002, 5003}

\* command_rx.recv(): a command, None once the sender is gone, or pending.
RecvReady == command_queue # <<>> \/ ~command_tx
Received == IF command_queue # <<>> THEN Head(command_queue) ELSE "None"
IsCancel_any(cmd) == TRUE
IsCancel(cmd) == cmd \in {"None", "Disconnect"}
AfterRecv == IF command_queue # <<>> THEN Tail(command_queue) ELSE command_queue

\* reconnect_delay(attempt), in seconds.
\* A variant of reconnect_delay whose exponent is capped one later.
reconnect_delay_cap6(attempt) == 2 ^ (IF attempt < 6 THEN attempt ELSE 6)

reconnect_delay(attempt) == 2 ^ (IF attempt < 5 THEN attempt ELSE 5)

\* The clock of the backoff wait advances by the shortest delay.
BackoffTickSecs == reconnect_delay(1)

next_connecting_state_attempt_only(attempt, connected_once) ==
    IF attempt = 0 THEN "Connecting" ELSE "Reconnecting"

next_connecting_state(attempt, connected_once) ==
    IF attempt = 0 /\ ~connected_once THEN "Connecting" ELSE "Reconnecting"

\* MediaRuntime::new: no inbound stream yet.
FreshMedia ==
    /\ stream_present' = FALSE
    /\ expected_seq' = NoSeq
    /\ started' = FALSE
    /\ buffered' = {}
    /\ rx_late_frames_dropped' = 0
    /\ actions' = <<>>
    /\ drain_diverged' = "no"
    /\ last_op' = [op |-> "new"]
    /\ last_frame_seq' = NoSeq
    /\ seq_wrapped' = FALSE
    /\ warmup_run' = 0
    /\ UNCHANGED jitter_tuning

\* VoiceService::connect (after its own disconnect): metrics reset with
\* connected = true, a new channel, the worker spawned.
InitWorker ==
    /\ AppIdle
    /\ backoff_left = 0
    /\ failed_attempts = 0
    /\ pc = "loop_top"
    /\ should_exit = FALSE
    /\ reconnect_attempt = 0
    /\ has_connected_once = FALSE
    /\ latest_reason = FALSE
    /\ command_queue = <<>>
    /\ command_tx = TRUE
    /\ connection_state = "Disconnected"
    /\ metrics_connected = TRUE
    /\ disconnecting = FALSE
    /\ UdpIdle
    /\ stream_present = FALSE
    /\ expected_seq = NoSeq
    /\ started = FALSE
    /\ buffered = {}
    /\ jitter_tuning = JitterTuning_new_from_config(WorkerJitterTarget, WorkerJitterMax)
    /\ rx_late_frames_dropped = 0
    /\ actions = <<>>
    /\ drain_diverged = "no"
    /\ last_op = [op |-> "new"]
    /\ last_frame_seq = NoSeq
    /\ seq_wrapped = FALSE
    /\ warmup_run = 0

\* VoiceService::send_command: any command but Disconnect.
SendCommand(cmd) ==
    /\ UNCHANGED app_vars
    /\ UNCHANGED backoff_vars
    /\ command_tx
    /\ Len(command_queue) < MaxQueued
    /\ command_queue' = Append(command_queue, cmd)
    /\ UNCHANGED <<pc, should_exit, reconnect_attempt, has_connected_once,
                   latest_reason, command_tx, connection_state,
                   metrics_connected, disconnecting>>
    /\ UNCHANGED <<jitter_vars, udp_vars>>

\* VoiceService::disconnect, up to its await of the worker: Disconnect is
\* sent and the sender dropped.
ServiceDisconnect ==
    /\ UNCHANGED app_vars
    /\ UNCHANGED backoff_vars
    /\ command_tx
    /\ command_queue' = Append(command_queue, "Disconnect")
    /\ command_tx' = FALSE
    /\ disconnecting' = TRUE
    /\ UNCHANGED <<pc, should_exit, reconnect_attempt, has_connected_once,
                   latest_reason, connection_state, metrics_connected>>
    /\ UNCHANGED <<jitter_vars, udp_vars>>

\* VoiceService::disconnect, after the worker has returned.
ServiceDisconnectJoined ==
    /\ UNCHANGED app_vars
    /\ UNCHANGED backoff_vars
    /\ disconnecting
    /\ pc = "exited"
    /\ disconnecting' = FALSE
    /\ metrics_connected' = FALSE
    /\ UNCHANGED <<pc, should_exit, reconnect_attempt, has_connected_once,
                   latest_reason, command_queue, command_tx, connection_state>>
    /\ UNCHANGED <<jitter_vars, udp_vars>>

\* The VoiceService is dropped: the channel closes without a Disconnect.
ServiceDropped ==
    /\ UNCHANGED app_vars
    /\ UNCHANGED backoff_vars
    /\ command_tx
    /\ command_tx' = FALSE
    /\ UNCHANGED <<pc, should_exit, reconnect_attempt, has_connected_once,
                   latest_reason, command_queue, connection_state,
                   metrics_connected, disconnecting>>
    /\ UNCHANGED <<jitter_vars, udp_vars>>

\* The test of `while !should_exit` and, inside the loop, the Connecting or
\* Reconnecting event.
LoopTop ==
    /\ UNCHANGED app_vars
    /\ UNCHANGED backoff_vars
    /\ pc = "loop_top"
    /\ IF should_exit
       THEN /\ pc' = "final"
            /\ UNCHANGED connection_state
       ELSE /\ pc' = "connecting"
            /\ connection_state' =
                   next_connecting_state(reconnect_attempt, has_connected_once)
    /\ UNCHANGED <<should_exit, reconnect_attempt, has_connected_once, latest_reason,
                   command_queue, command_tx, metrics_connected, disconnecting>>
    /\ UNCHANGED <<jitter_vars, udp_vars>>

\* connect_mumble returns Err.
ConnectFails ==
    /\ UNCHANGED app_vars
    /\ pc = "connecting"
    /\ failed_attempts < MaxAttempts
    /\ failed_attempts' = failed_attempts + 1
    /\ reconnect_attempt' = reconnect_attempt + 1
    /\ backoff_left' = reconnect_delay(reconnect_attempt + 1)
    /\ latest_reason' = TRUE
    /\ pc' = "backoff"
    /\ UNCHANGED <<should_exit, has_connected_once, command_queue, command_tx,
                   connection_state, metrics_connected, disconnecting>>
    /\ UNCHANGED <<jitter_vars, udp_vars>>

\* connect_mumble returns Ok: the Connected event, then MediaRuntime::new,
\* whose failure leaves the outer loop.
ConnectSucceeds(media_ok) ==
    /\ UNCHANGED app_vars
    /\ UNCHANGED backoff_vars
    /\ pc = "connecting"
    /\ reconnect_attempt' = 0
    /\ has_connected_once' = TRUE
    /\ connection_state' = "Connected"
    /\ latest_reason' = ~media_ok
    /\ IF media_ok
       THEN /\ pc' = "live"
            /\ FreshMedia
       ELSE /\ pc' = "final"
            /\ UNCHANGED jitter_vars
    /\ UNCHANGED <<should_exit, command_queue, command_tx, metrics_connected,
                   disconnecting>>
    /\ UNCHANGED udp_vars

\* wait_for_retry_or_disconnect, the recv branch: the command is consumed;
\* only None and Disconnect set should_exit.
BackoffRecv ==
    /\ UNCHANGED app_vars
    /\ pc = "backoff"
    /\ RecvReady
    /\ backoff_left' = 0
    /\ UNCHANGED failed_attempts
    /\ should_exit' = (should_exit \/ IsCancel(Received))
    /\ command_queue' = AfterRecv
    /\ pc' = "loop_top"
    /\ UNCHANGED <<reconnect_attempt, has_connected_once, latest_reason, command_tx,
                   connection_state, metrics_connected, disconnecting>>
    /\ UNCHANGED <<jitter_vars, udp_vars>>

\* wait_for_retry_or_disconnect, the sleep branch.
BackoffElapsed ==
    /\ UNCHANGED app_vars
    /\ pc = "backoff"
    /\ backoff_left = 0
    /\ UNCHANGED backoff_vars
    /\ pc' = "loop_top"
    /\ UNCHANGED <<should_exit, reconnect_attempt, has_connected_once, latest_reason,
                   command_queue, command_tx, connection_state, metrics_connected,
                   disconnecting>>
    /\ UNCHANGED <<jitter_vars, udp_vars>>

\* Time passes during the sleep of the backoff wait.
BackoffTick ==
    /\ UNCHANGED app_vars
    /\ pc = "backoff"
    /\ backoff_left > 0
    /\ backoff_left' = IF backoff_left > BackoffTickSecs
                       THEN backoff_left - BackoffTickSecs ELSE 0
    /\ UNCHANGED <<pc, should_exit, reconnect_attempt, has_connected_once,
                   latest_reason, command_queue, command_tx, connection_state,
                   metrics_connected, disconnecting, failed_attempts>>
    /\ UNCHANGED <<jitter_vars, udp_vars>>

\* The command arm of the select!: handle_ok is whether handle_live_command
\* returns Ok (SetPtt always does).
LiveCommand(handle_ok) ==
    /\ UNCHANGED app_vars
    /\ UNCHANGED backoff_vars
    /\ pc = "live"
    /\ RecvReady
    /\ command_queue' = AfterRecv
    /\ IF IsCancel(Received)
       THEN /\ should_exit' = TRUE
            /\ pc' = "after_loop"
            /\ UNCHANGED latest_reason
       ELSE IF handle_ok \/ Received = "SetPtt"
            THEN /\ pc' = "live"
                 /\ UNCHANGED <<should_exit, latest_reason>>
            ELSE /\ failed_attempts < MaxAttempts
                 /\ latest_reason' = TRUE
                 /\ pc' = "after_loop"
                 /\ UNCHANGED should_exit
    /\ UNCHANGED <<reconnect_attempt, has_connected_once, command_tx,
                   connection_state, metrics_connected, disconnecting>>
    /\ UNCHANGED <<jitter_vars, udp_vars>>

\* An arm that either goes round the loop or breaks with a reason.
ArmResult(ok) ==
    /\ UNCHANGED app_vars
    /\ UNCHANGED backoff_vars
    /\ pc = "live"
    /\ ok \/ failed_attempts < MaxAttempts
    /\ pc' = IF ok THEN "live" ELSE "after_loop"
    /\ latest_reason' = (latest_reason \/ ~ok)
    /\ UNCHANGED <<should_exit, reconnect_attempt, has_connected_once, command_queue,
                   command_tx, connection_state, metrics_connected, disconnecting>>

\* The ping_tick arm: transport_stats (no UDP path here), then send_ping.
PingTick(tcp_ok) ==
    /\ ArmResult(tcp_ok)
    /\ UNCHANGED <<jitter_vars, udp_vars>>

\* The udp_ping_tick arm: send_udp_ping returns Ok without sending.
UdpPingTick ==
    /\ ArmResult(TRUE)
    /\ UNCHANGED <<jitter_vars, udp_vars>>

\* The speaking_tick arm.
SpeakingTick ==
    /\ ArmResult(TRUE)
    /\ UNCHANGED <<jitter_vars, udp_vars>>

\* The control stream arm for a packet that is not voice: "closed" is the
\* end of the stream, "decode_error" a codec error, "reject" a Reject (or any
\* other Err of handle_control_packet), "other" a packet handled with Ok.
ControlPacketArm(kind) ==
    /\ ArmResult(kind = "other")
    /\ UNCHANGED <<jitter_vars, udp_vars>>

\* The control stream arm for UDPTunnel: handle_incoming_voice queues the
\* frame.  Frames arrive in increasing order of seq_num.
TunneledVoice(seq_num) ==
    /\ ArmResult(TRUE)
    /\ \A k \in buffered : k < seq_num
    /\ ~IsLate(seq_num)
    /\ QueueInboundVoice(seq_num)
    /\ UNCHANGED udp_vars

\* The media_tick arm up to the return of drain_inbound_playout.
\* poll_udp_inbound returns at once; the drain may not return; decode_ok is
\* whether decode_actions_for_stream returns Ok.
MediaTickDrain(force_gap_conceal, decode_ok) ==
    /\ UNCHANGED app_vars
    /\ UNCHANGED backoff_vars
    /\ pc = "live"
    /\ decode_ok \/ failed_attempts < MaxAttempts
    /\ IF stream_present
       THEN /\ DrainInboundPlayout(force_gap_conceal)
            /\ pc' = IF drain_diverged' # "no" THEN "in_drain"
                     ELSE IF decode_ok \/ actions' = <<>> THEN "pump"
                     ELSE "after_loop"
            /\ latest_reason' =
                   (latest_reason \/ (drain_diverged' = "no" /\ ~decode_ok /\ actions' # <<>>))
       ELSE /\ pc' = "pump"
            /\ UNCHANGED <<jitter_vars, latest_reason>>
    /\ UNCHANGED <<should_exit, reconnect_attempt, has_connected_once, command_queue,
                   command_tx, connection_state, metrics_connected, disconnecting>>
    /\ UNCHANGED udp_vars

\* The rest of the media_tick arm: pump_capture_and_send sends no packet
\* ("idle"), or one voice packet with send_voice_packet.
MediaTickPump(outcome) ==
    /\ UNCHANGED app_vars
    /\ UNCHANGED backoff_vars
    /\ pc = "pump"
    /\ IF outcome = "idle"
       THEN /\ pc' = "live"
            /\ UNCHANGED <<latest_reason, udp_vars>>
       ELSE /\ tx_packets_sent_udp + tx_packets_sent_tcp < MaxTxPackets
            /\ outcome = "sent" \/ failed_attempts < MaxAttempts
            /\ LET r == send_voice_packet(Transport, udp_socket, crypt_state, now,
                                          TRUE, outcome = "sent")
               IN /\ SetTransport(r.t)
                  /\ tx_packets_sent_udp' = tx_packets_sent_udp + r.sent_udp
                  /\ tx_packets_sent_tcp' = tx_packets_sent_tcp + r.sent_tcp
                  /\ udp_op' = [op |-> "voice", udp |-> r.udp, tcp |-> r.tcp]
                  /\ latest_reason' = (latest_reason \/ r.err)
                  /\ pc' = IF r.err THEN "after_loop" ELSE "live"
            /\ UNCHANGED <<now, udp_socket, crypt_state, session_error,
                           failures_in_a_row, degrade_entered_at>>
    /\ UNCHANGED <<should_exit, reconnect_attempt, has_connected_once, command_queue,
                   command_tx, connection_state, metrics_connected, disconnecting>>
    /\ UNCHANGED jitter_vars

\* Past the inner loop: leave the outer loop, or Reconnecting and backoff.
\* The MediaRuntime of the connection is dropped with its inbound streams.
AfterLoop ==
    /\ UNCHANGED app_vars
    /\ pc = "after_loop"
    /\ IF should_exit
       THEN /\ pc' = "final"
            /\ UNCHANGED <<reconnect_attempt, connection_state, backoff_vars>>
       ELSE IF latest_reason
            THEN /\ reconnect_attempt' = reconnect_attempt + 1
                 /\ failed_attempts' = failed_attempts + 1
                 /\ connection_state' = "Reconnecting"
                 /\ backoff_left' = reconnect_delay(reconnect_attempt + 1)
                 /\ pc' = "backoff"
            ELSE /\ pc' = "loop_top"
                 /\ UNCHANGED <<reconnect_attempt, connection_state, backoff_vars>>
    /\ UNCHANGED <<should_exit, has_connected_once, latest_reason, command_queue,
                   command_tx, metrics_connected, disconnecting>>
    /\ FreshMedia
    /\ UNCHANGED udp_vars

\* Past the outer loop: metrics.connected = false, then the Disconnected
\* event, then the worker returns.
Final ==
    /\ UNCHANGED app_vars
    /\ UNCHANGED backoff_vars
    /\ pc = "final"
    /\ metrics_connected' = FALSE
    /\ connection_state' = "Disconnected"
    /\ pc' = "exited"
    /\ UNCHANGED <<should_exit, reconnect_attempt, has_connected_once, latest_reason,
                   command_queue, command_tx, disconnecting>>
    /\ UNCHANGED <<jitter_vars, udp_vars>>

ConnectReturns == ConnectFails \/ \E media_ok \in BOOLEAN : ConnectSucceeds(media_ok)
LiveCommandArm == \E handle_ok \in BOOLEAN : LiveCommand(handle_ok)
PumpReturns == \E outcome \in {"idle", "sent", "send_failed"} : MediaTickPump(outcome)

NextWorker ==
    \/ \E cmd \in Commands : SendCommand(cmd)
    \/ ServiceDisconnect
    \/ ServiceDisconnectJoined
    \/ ServiceDropped
    \/ LoopTop
    \/ ConnectReturns
    \/ BackoffRecv
    \/ BackoffElapsed
    \/ BackoffTick
    \/ LiveCommandArm
    \/ \E tcp_ok \in BOOLEAN : PingTick(tcp_ok)
    \/ UdpPingTick
    \/ SpeakingTick
    \/ \E kind \in {"closed", "decode_error", "reject", "other"} : ControlPacketArm(kind)
    \/ \E seq_num \in WorkerArrivalSeqs : TunneledVoice(seq_num)
    \/ \E force \in BOOLEAN, decode_ok \in BOOLEAN : MediaTickDrain(force, decode_ok)
    \/ PumpReturns
    \/ AfterLoop
    \/ Final

\* The worker's own steps are taken when they stay possible; connect_mumble
\* and pump_capture_and_send return; select! picks among its ready branches
\* at random, so a recv that is ready again and again is taken, in the
\* inner loop and in the backoff.
WorkerFairness ==
    /\ WF_vars(LoopTop)
    /\ WF_vars(ConnectReturns)
    /\ SF_vars(BackoffRecv)
    /\ WF_vars(BackoffRecv \/ BackoffElapsed \/ BackoffTick)
    /\ SF_vars(LiveCommandArm)
    /\ WF_vars(PumpReturns)
    /\ WF_vars(AfterLoop)
    /\ WF_vars(Final)

SpecWorkerFair == InitWorker /\ [][NextWorker]_vars /\ WorkerFairness


(***************************************************************************)
(* Claims about the jitter buffer, checked under SpecJitter.               *)
(***************************************************************************)
DrainStep == \E force \in BOOLEAN : drain_inbound_playout(force)

\* seqs continues a strictly increasing sequence whose latest element was prev.
StrictlyAfter(prev, seqs) ==
    /\ \A i \in 1..(Len(seqs) - 1) : seqs[i] < seqs[i + 1]
    /\ (prev # NoSeq /\ seqs # <<>>) => prev < seqs[1]

\* C1 (as stated): over any sequence of packet arrivals and drains, the
\* sequence numbers of the frames emitted as DecodeAction::Frame are strictly
\* increasing: every frame a drain emits has a larger sequence number than
\* every frame emitted before it.
C1_FramesStrictlyIncreasing ==
    [][StrictlyAfter(last_frame_seq, FrameSeqs(actions'))]_vars

\* C1 (amended): as long as expected_seq has not wrapped around the end of
\* the u64 range, the sequence numbers of the frames emitted are strictly
\* increasing.
C1_FramesIncreaseUntilWrap ==
    [][~seq_wrapped' => StrictlyAfter(last_frame_seq, FrameSeqs(actions'))]_vars

\* C1 witness: a drain of a stream that has not wrapped emits a frame after
\* an earlier drain emitted one.
C1_Witness ==
    /\ last_op.op = "drain"
    /\ ~seq_wrapped
    /\ Len(FrameSeqs(actions)) >= 1
    /\ FrameSeqs(actions)[1] > last_op.expected
    /\ FrameSeqs(actions)[1] = 1920

\* C2: in every reachable state no frame held in the buffered map has a
\* sequence number below expected_seq, and a packet arriving with
\* seq < expected_seq is not inserted and increments rx_late_frames_dropped
\* by exactly one.
C2_NoBufferedBelowExpected ==
    /\ [](\A k \in buffered : k >= expected_seq)
    /\ [][\A seq_num \in ArrivalSeqs :
            (queue_inbound_voice(seq_num) /\ IsLate(seq_num)) =>
                /\ buffered' = buffered
                /\ rx_late_frames_dropped' = rx_late_frames_dropped + 1]_vars

\* The arrival half of C2 alone.
C2_LateArrivalCountedAndDropped ==
    [][\A seq_num \in ArrivalSeqs :
            (queue_inbound_voice(seq_num) /\ IsLate(seq_num)) =>
                /\ buffered' = buffered
                /\ rx_late_frames_dropped' = rx_late_frames_dropped + 1]_vars

\* The T frames first, first + 960, ... of a warm-up.
WarmUpFrames(first, T) == [i \in 1..T |-> Frame(first + (i - 1) * OPUS_SEQ_STEP)]

\* C3: for a fresh stream with target_frames = T that receives T consecutive
\* in-order frames, every drain before the T-th frame is buffered yields no
\* decode action, and the first drain after the T-th arrival yields exactly
\* those T frames in sequence order.
C3_WarmUp ==
    [][(DrainStep /\ warmup_run >= 0) =>
          /\ warmup_run < jitter_tuning.target_frames =>
                 (actions' = <<>> /\ ~started')
          /\ warmup_run = jitter_tuning.target_frames =>
                 actions' = WarmUpFrames(expected_seq, jitter_tuning.target_frames)]_vars

\* C3 witness: target = 4, max = 10 and the fourth of the frames 0, 960,
\* 1920, 2880 has arrived; the drain emits the four frames.
C3_Witness ==
    /\ jitter_tuning.target_frames = 4
    /\ jitter_tuning.max_frames = 10
    /\ last_op.op = "drain"
    /\ last_op.warmup = 4
    /\ last_op.expected = 0
    /\ actions = <<Frame(0), Frame(960), Frame(1920), Frame(2880)>>

\* C3 witness of the other half: a drain during warm-up yields nothing.
C3_WitnessBefore ==
    /\ jitter_tuning.target_frames = 4
    /\ last_op.op = "drain"
    /\ last_op.warmup = 3
    /\ actions = <<>>
    /\ ~started

S5_Stream == started /\ expected_seq = 5760 /\ buffered = {7680}

\* C4 (as stated): for a started stream with expected_seq = 5760 and
\* buffered = {7680}, a drain with force_gap_conceal = true yields
\* ConcealLoss exactly once and then Frame(7680).
C4_ForcedPlcOnce ==
    [][(S5_Stream /\ drain_inbound_playout(TRUE)) =>
          actions' = <<ConcealLoss, Frame(7680)>>]_vars

\* C4 (amended): that drain yields ConcealLoss exactly twice, once for each
\* of the missing frames 5760 and 6720, and then Frame(7680).
C4_ForcedPlcTwice ==
    [][(S5_Stream /\ drain_inbound_playout(TRUE)) =>
          actions' = <<ConcealLoss, ConcealLoss, Frame(7680)>>]_vars

\* C4 witness: the forced drain of that stream has run.
C4_Witness ==
    /\ last_op.op = "drain"
    /\ last_op.force
    /\ last_op.expected = 5760
    /\ started
    /\ buffered = {}
    /\ FrameSeqs(actions) = <<7680>>

(***************************************************************************)
(* Claims about the UDP voice path, under SpecUdp                          *)
(***************************************************************************)
SuccessfulDecryptStep ==
    \/ \E udp_ok \in BOOLEAN : PollPing(udp_ok)
    \/ \E seq_num \in UdpArrivalSeqs : PollAudio(seq_num)

VoiceStep ==
    \E kind \in {"voice", "terminator"}, udp_ok \in BOOLEAN, tcp_ok \in BOOLEAN :
        SendVoicePacket(kind, udp_ok, tcp_ok)

\* This step called degrade_udp_path.
EntersDegradedWindow ==
    /\ udp_degraded_until' = now + UDP_DEGRADED_WINDOW_MS
    /\ udp_consecutive_decrypt_failures' = 0

\* C5 as stated: the 12th decrypt failure in a row (no successful decrypt
\* since the run began) leaves the path degraded, fewer than 12 in a row
\* never start a degraded window, a successful decrypt resets the count,
\* and a decrypt failure never ends the session.
C5_DegradeAtTwelfthFailureInARow ==
    /\ [][PollDecryptFailure =>
            /\ (failures_in_a_row + 1 = UDP_DECRYPT_FAILURE_THRESHOLD =>
                   /\ udp_degraded_until' # NoInstant
                   /\ now' < udp_degraded_until')
            /\ (failures_in_a_row + 1 < UDP_DECRYPT_FAILURE_THRESHOLD =>
                   ~EntersDegradedWindow)
            /\ session_error' = session_error]_vars
    /\ [][SuccessfulDecryptStep => udp_consecutive_decrypt_failures' = 0]_vars

\* C5 amended: a decrypt failure degrades the path exactly when it takes
\* udp_consecutive_decrypt_failures to 12, and otherwise only adds one to
\* it; a successful decrypt resets the counter; the counter never exceeds
\* the number of decrypt failures in a row, so fewer than 12 in a row never
\* degrade; a decrypt failure never ends the session.
C5_DegradeWhenCounterReachesThreshold ==
    /\ [][PollDecryptFailure =>
            /\ EntersDegradedWindow <=>
                   (udp_consecutive_decrypt_failures + 1 = UDP_DECRYPT_FAILURE_THRESHOLD)
            /\ (udp_consecutive_decrypt_failures + 1 < UDP_DECRYPT_FAILURE_THRESHOLD =>
                   /\ udp_degraded_until' = udp_degraded_until
                   /\ udp_consecutive_decrypt_failures' = udp_consecutive_decrypt_failures + 1)
            /\ (failures_in_a_row + 1 < UDP_DECRYPT_FAILURE_THRESHOLD =>
                   ~EntersDegradedWindow)
            /\ session_error' = session_error]_vars
    /\ [][SuccessfulDecryptStep => udp_consecutive_decrypt_failures' = 0]_vars
    /\ [](/\ udp_consecutive_decrypt_failures <= failures_in_a_row
          /\ udp_consecutive_decrypt_failures < UDP_DECRYPT_FAILURE_THRESHOLD)

C5_Witness ==
    /\ udp_op.op = "decrypt_failure"
    /\ udp_op.degraded
    /\ ~udp_op.was_degraded
    /\ udp_degraded_until = now + UDP_DEGRADED_WINDOW_MS
    /\ udp_consecutive_decrypt_failures = 0

\* The number of paths the latest voice packet was handed to.
Carried(op) == (IF op.udp = "sent" THEN 1 ELSE 0) + (IF op.tcp # "none" THEN 1 ELSE 0)

\* C6: every voice packet goes to exactly one path: the TCP tunnel while
\* the path is degraded or unavailable, otherwise UDP is tried, and the TCP
\* tunnel when that UDP send fails; never both, never none (a failing TCP
\* send is returned as an error); the two tx counters together grow by one.
C6_VoicePacketSentOnce ==
    [][(udp_op'.op = "voice" /\ VoiceStep) =>
          LET tunnel == Degraded \/ ~udp_socket \/ ~crypt_state
          IN /\ Carried(udp_op') = 1
             /\ tx_packets_sent_udp' + tx_packets_sent_tcp'
                    = tx_packets_sent_udp + tx_packets_sent_tcp + 1
             /\ tunnel =>
                    /\ udp_op'.udp = "none"
                    /\ tx_packets_sent_tcp' = tx_packets_sent_tcp + 1
             /\ ~tunnel => udp_op'.udp \in {"sent", "failed"}
             /\ udp_op'.udp = "sent" =>
                    /\ udp_op'.tcp = "none"
                    /\ tx_packets_sent_udp' = tx_packets_sent_udp + 1
             /\ udp_op'.udp = "failed" =>
                    /\ udp_op'.tcp # "none"
                    /\ tx_packets_sent_tcp' = tx_packets_sent_tcp + 1
             /\ session_error' = (udp_op'.tcp = "failed")]_vars

C6_Witness ==
    /\ udp_op.op = "voice"
    /\ udp_op.udp = "failed"
    /\ udp_op.tcp = "sent"
    /\ tx_packets_sent_udp = 1
    /\ tx_packets_sent_tcp = 1

TransportNext == [failures |-> udp_consecutive_decrypt_failures',
                  until |-> udp_degraded_until']

\* C7: a UDP audio packet received while the path is degraded clears
\* udp_degraded_until and the failure counter, and can_send_udp_voice
\* answers true right after it.
C7_AudioRxClearsDegradation ==
    [][((\E seq_num \in UdpArrivalSeqs : PollAudio(seq_num)) /\ Degraded) =>
          /\ udp_degraded_until' = NoInstant
          /\ udp_consecutive_decrypt_failures' = 0
          /\ can_send_udp_voice(TransportNext, udp_socket', crypt_state', now').ok]_vars

C7_Witness ==
    /\ udp_op.op = "audio_rx"
    /\ udp_op.was_degraded
    /\ udp_degraded_until = NoInstant
    /\ now < degrade_entered_at + UDP_DEGRADED_WINDOW_MS

\* A voice packet is sent after the window has run out.
VoiceStepAfterExpiry ==
    /\ udp_degraded_until # NoInstant
    /\ now >= udp_degraded_until
    /\ can_send_udp(udp_socket, crypt_state)
    /\ udp_op'.op = "voice"
    /\ VoiceStep

\* C8 as stated: while the path is degraded the end of the window is
\* never moved later, and a voice packet sent after the end tries UDP.
C8_WindowEndNeverPushedLater ==
    /\ [][(Degraded /\ udp_degraded_until' # NoInstant) =>
             udp_degraded_until' <= udp_degraded_until]_vars
    /\ [][VoiceStepAfterExpiry => udp_op'.udp # "none"]_vars

\* C8 amended: the window ends 10 s after the latest degradation; a voice
\* packet sent at or after that end tries UDP; while the path is degraded
\* the end is moved only by a received UDP audio packet (cleared) and by
\* 12 further counted decrypt failures (restarted at now + 10 s).
C8_WindowRestartsOnFurtherFailures ==
    /\ [](udp_degraded_until # NoInstant =>
             udp_degraded_until = degrade_entered_at + UDP_DEGRADED_WINDOW_MS)
    /\ [][VoiceStepAfterExpiry =>
             /\ udp_op'.udp # "none"
             /\ udp_op'.udp = "sent" => udp_degraded_until' = NoInstant]_vars
    /\ [][(Degraded /\ udp_degraded_until' # udp_degraded_until) =>
             \/ /\ \E seq_num \in UdpArrivalSeqs : PollAudio(seq_num)
                /\ udp_degraded_until' = NoInstant
             \/ /\ PollDecryptFailure
                /\ udp_consecutive_decrypt_failures + 1 = UDP_DECRYPT_FAILURE_THRESHOLD
                /\ udp_degraded_until' = now + UDP_DEGRADED_WINDOW_MS]_vars

C8_Witness ==
    /\ udp_op.op = "decrypt_failure"
    /\ udp_op.degraded
    /\ udp_op.was_degraded
    /\ now > 0
    /\ udp_degraded_until = now + UDP_DEGRADED_WINDOW_MS

VoiceUdpSendFails ==
    /\ udp_op'.op = "voice"
    /\ udp_op'.udp = "failed"
    /\ \E kind \in {"voice", "terminator"}, tcp_ok \in BOOLEAN :
           SendVoicePacket(kind, FALSE, tcp_ok)

PingUdpSendFails ==
    /\ udp_op'.op = "udp_ping"
    /\ udp_op'.udp = "failed"
    /\ \E origin \in {"udp_ping_tick", "server_sync"} : SendUdpPing(origin, FALSE)

\* C9 as stated: every failed UDP send (voice packet, UDP ping, echoed
\* ping) starts a degraded window of 10 s.
C9_AnyUdpSendErrorDegrades ==
    [][(VoiceUdpSendFails \/ PingUdpSendFails \/ PollPing(FALSE)) =>
          udp_degraded_until' = now + UDP_DEGRADED_WINDOW_MS]_vars

\* C9 amended: a failed UDP send of a voice packet starts a degraded window
\* of 10 s and the packet goes to the TCP tunnel; a failed UDP send of a
\* ping (periodic, ServerSync, echo) leaves the path as it is, not degraded.
C9_OnlyVoiceSendErrorDegrades ==
    /\ [][VoiceUdpSendFails =>
             /\ udp_degraded_until' = now + UDP_DEGRADED_WINDOW_MS
             /\ udp_consecutive_decrypt_failures' = 0
             /\ udp_op'.tcp # "none"]_vars
    /\ [][PingUdpSendFails =>
             /\ udp_degraded_until' = NoInstant
             /\ udp_consecutive_decrypt_failures'
                    = can_send_udp_voice(Transport, udp_socket, crypt_state, now).t.failures]_vars
    /\ [][PollPing(FALSE) => udp_degraded_until' = udp_degraded_until]_vars

C9_Witness ==
    /\ udp_op.op = "udp_ping"
    /\ udp_op.udp = "failed"
    /\ udp_degraded_until = NoInstant
    /\ tx_packets_sent_udp = 1

(***************************************************************************)
(* Claims about the worker, under SpecWorkerFair                           *)
(***************************************************************************)
\* Disconnect was sent, or the channel was dropped.
CancelRequested == ~command_tx

\* C10 as stated: once cancellation is requested the worker eventually
\* returns, and when it has returned the latest connection event is
\* Disconnected and metrics.connected is false.
C10_CancellationLiveness ==
    /\ CancelRequested ~> (pc = "exited")
    /\ [](pc = "exited" => (connection_state = "Disconnected" /\ ~metrics_connected))

\* What does hold: once cancellation is requested the worker returns or is
\* inside a drain_inbound_playout that does not return; a worker that has
\* returned has left Disconnected as the latest event and metrics.connected
\* false.
WorkerExitsUnlessDrainDiverges ==
    /\ CancelRequested ~> (pc \in {"exited", "in_drain"})
    /\ [](pc = "exited" => (connection_state = "Disconnected" /\ ~metrics_connected))

\* C11 as stated: the worker leaves the outer loop only with should_exit
\* set, which only a received Disconnect or a closed channel sets.
C11_StopsOnlyAfterCancel ==
    /\ [][(~should_exit /\ should_exit') =>
             (RecvReady /\ Received \in {"None", "Disconnect"})]_vars
    /\ [][(pc # "final" /\ pc' = "final") => should_exit']_vars

\* C11 amended: the worker leaves the outer loop with should_exit set (by
\* a received Disconnect or a closed channel) or because MediaRuntime::new
\* failed right after connect_mumble succeeded; an error in the inner loop
\* leads to the Reconnecting event, the backoff, and from there to another
\* connection attempt unless the wait is cancelled.
C11_StopsAfterCancelOrMediaFailure ==
    /\ [][(~should_exit /\ should_exit') =>
             (RecvReady /\ Received \in {"None", "Disconnect"})]_vars
    /\ [][(pc # "final" /\ pc' = "final") =>
             (should_exit' \/ (pc = "connecting" /\ latest_reason'))]_vars
    /\ [](pc = "after_loop" => (should_exit \/ latest_reason))
    /\ [][(pc = "after_loop" /\ ~should_exit /\ pc' # "after_loop") =>
             (pc' = "backoff" /\ connection_state' = "Reconnecting")]_vars
    /\ [][(pc = "backoff" /\ pc' # "backoff") => pc' = "loop_top"]_vars
    /\ [][(pc = "loop_top" /\ ~should_exit /\ pc' # "loop_top") =>
             pc' = "connecting"]_vars

C11_Witness ==
    /\ pc = "connecting"
    /\ has_connected_once
    /\ reconnect_attempt = 1
    /\ connection_state = "Reconnecting"
    /\ ~should_exit

\* A retry begins: the backoff wait returns and the worker is not exiting.
RetryBegins == pc = "backoff" /\ pc' = "loop_top" /\ ~should_exit'

\* C12: the attempt after a failure starts only once the whole
\* reconnect_delay has elapsed; a wait that ends earlier was cancelled by
\* Disconnect or a closed channel and is followed by no attempt, so no other
\* command ends the wait early.
C12_BackoffRunsInFull ==
    /\ [][RetryBegins => backoff_left = 0]_vars
    /\ [][(pc = "backoff" /\ pc' # "backoff" /\ backoff_left > 0) =>
             should_exit']_vars

\* The delay 2^min(k,5) seconds the k-th failure in a row is to be followed by.
DelayAfterFailures(k) == 2 ^ (IF k < 5 THEN k ELSE 5)

\* A failed attempt enters its backoff wait.
BackoffBegins == pc # "backoff" /\ pc' = "backoff"

\* C13: when attempts keep failing, in connect_mumble or in the inner loop
\* after the connect (a server Reject included), the wait that follows the
\* k-th failure is 2^min(k,5) seconds.
C13_DelayDoublesPerFailure ==
    [][BackoffBegins => backoff_left' = DelayAfterFailures(failed_attempts')]_vars

\* The attempt about to be announced is the first of the session.
FirstAttempt == failed_attempts = 0 /\ ~has_connected_once

\* The worker announces a connection attempt.
AnnouncesAttempt == pc = "loop_top" /\ pc' = "connecting"

\* C14: next_connecting_state is Connecting iff attempt = 0 and nothing has
\* connected yet; the worker announces its first attempt with Connecting and
\* every later one with Reconnecting, and Connecting appears only as the
\* first connection event.
C14_ConnectingOnlyForFirstAttempt ==
    /\ [][AnnouncesAttempt =>
             /\ \A attempt \in 0..MaxAttempts, connected_once \in BOOLEAN :
                    next_connecting_state(attempt, connected_once) = "Connecting"
                        <=> (attempt = 0 /\ ~connected_once)
             /\ connection_state' =
                    IF FirstAttempt THEN "Connecting" ELSE "Reconnecting"]_vars
    /\ [][(connection_state # "Connecting" /\ connection_state' = "Connecting") =>
             (AnnouncesAttempt /\ FirstAttempt)]_vars

C14_Witness ==
    /\ pc = "connecting"
    /\ connection_state = "Reconnecting"
    /\ failed_attempts = 1
    /\ ~has_connected_once

(***************************************************************************)
(* Calls of pure functions: the arguments are drawn by the initial state,  *)
(* the action applies the function to them.                                *)
(***************************************************************************)
MaxAttemptNumber == 100

ReconnectDelayCalls ==
    {[fn |-> "reconnect_delay", attempt |-> n] : n \in 0..MaxAttemptNumber}

\* The users a UserState is applied to: none yet, or one known user.
KnownUsers ==
    {User("alex", <<"a">>, 2, muted, deafened) :
         muted \in BOOLEAN, deafened \in BOOLEAN}

CallRosters ==
    {[ProtocolRoster_new EXCEPT !.users[1] = user, !.self_session = self_session] :
         user \in KnownUsers \cup {NoUser}, self_session \in {NoSession, 1}}

OptBools == {NoBool, Opt(TRUE, FALSE), Opt(TRUE, TRUE)}

CallUserStates ==
    {UserState(session, name, comment, channel_id, mute, self_mute, deaf, self_deaf) :
         session \in {Opt(FALSE, 0), Opt(TRUE, 1), Opt(TRUE, 2)},
         name \in {Opt(FALSE, ""), Opt(TRUE, "mason")},
         comment \in {Opt(FALSE, EmptyComment),
                      Opt(TRUE, Comment(TRUE, <<"A", "b!", " a">>)),
                      Opt(TRUE, Comment(FALSE, <<"hello world">>))},
         channel_id \in {Opt(FALSE, 0), Opt(TRUE, 1)},
         mute \in OptBools,
         self_mute \in {NoBool, Opt(TRUE, TRUE)},
         deaf \in {NoBool, Opt(TRUE, TRUE)},
         self_deaf \in OptBools}

CallSelfEvents ==
    {SelfEvent(FALSE, deafened, ptt_enabled, is_transmitting) :
         deafened \in BOOLEAN, ptt_enabled \in BOOLEAN, is_transmitting \in BOOLEAN}

ApplyUserStateCalls ==
    {[fn |-> "apply_user_state", roster |-> r, msg |-> msg, current_self |-> s] :
         r \in CallRosters, msg \in CallUserStates, s \in CallSelfEvents}

\* A byte string of a CryptSetup field: its length and which bytes it holds.
Bytes(len, id) == [len |-> len, id |-> id]

\* The length of key and nonces: [u8; 16].
CryptBlockLen == 16

CryptFields ==
    {Bytes(0, 0), Bytes(8, 1), Bytes(CryptBlockLen, 1), Bytes(CryptBlockLen, 2),
     Bytes(CryptBlockLen + 1, 1)}

\* msgs::CryptSetup; get_x() of an absent field is the empty string.
CryptSetup(key, client_nonce, server_nonce) ==
    [key |-> key, client_nonce |-> client_nonce, server_nonce |-> server_nonce]

\* Option<ClientCryptState>: the key, the two nonces, the packets counted good.
NoCryptState == [some |-> FALSE]
CryptState(key, encrypt_nonce, decrypt_nonce, good) ==
    [some |-> TRUE, key |-> key, encrypt_nonce |-> encrypt_nonce,
     decrypt_nonce |-> decrypt_nonce, good |-> good]

\* ClientCryptState::new_from
ClientCryptState_new_from(key, client_nonce, server_nonce) ==
    CryptState(key, client_nonce, server_nonce, 0)

NoResponse == [some |-> FALSE]

CryptSetupOut(state, response, err) ==
    [crypt_state |-> state, response |-> response, err |-> err]

\* An apply_crypt_setup that answers the request with the decrypt nonce.
apply_crypt_setup_decrypt_nonce(state, msg) ==
    IF state.some /\ msg.key.len = 0 /\ msg.client_nonce.len = 0 /\ msg.server_nonce.len = 0
    THEN CryptSetupOut(state, [some |-> TRUE, client_nonce |-> state.decrypt_nonce], FALSE)
    ELSE CryptSetupOut(state, NoResponse, FALSE)

\* MediaRuntime::apply_crypt_setup: the crypt state after the call, the
\* response (Ok(Some)), Err.
apply_crypt_setup(state, msg) ==
    IF /\ msg.key.len = CryptBlockLen
       /\ msg.client_nonce.len = CryptBlockLen
       /\ msg.server_nonce.len = CryptBlockLen
    THEN CryptSetupOut(ClientCryptState_new_from(msg.key, msg.client_nonce,
                                                 msg.server_nonce),
                       NoResponse, FALSE)
    ELSE IF msg.server_nonce.len # 0
    THEN IF msg.server_nonce.len # CryptBlockLen
         THEN CryptSetupOut(state, NoResponse, TRUE)
         ELSE CryptSetupOut(IF state.some
                            THEN [state EXCEPT !.decrypt_nonce = msg.server_nonce]
                            ELSE state,
                            NoResponse, FALSE)
    ELSE IF msg.key.len = 0 /\ msg.client_nonce.len = 0 /\ msg.server_nonce.len = 0
    THEN IF state.some
         THEN CryptSetupOut(state,
                            [some |-> TRUE, client_nonce |-> state.encrypt_nonce], FALSE)
         ELSE CryptSetupOut(state, NoResponse, FALSE)
    ELSE CryptSetupOut(state, NoResponse, FALSE)

\* handle_control_packet, CryptSetup: the response is sent on the control
\* stream; an Err of apply_crypt_setup or of the send ends the session.
crypt_setup_arm(state, msg, send_ok) ==
    LET out == apply_crypt_setup(state, msg) IN
        [crypt_state |-> out.crypt_state,
         sent |-> IF out.response.some /\ send_ok THEN <<out.response>> ELSE <<>>,
         ended |-> out.err \/ (out.response.some /\ ~send_ok)]

CryptSetupCalls ==
    {[fn |-> "crypt_setup", state |-> state, send_ok |-> send_ok,
      msg |-> CryptSetup(key, client_nonce, server_nonce)] :
         state \in {NoCryptState,
                    CryptState(Bytes(CryptBlockLen, 1), Bytes(CryptBlockLen, 1),
                               Bytes(CryptBlockLen, 2), 3)},
         send_ok \in BOOLEAN,
         key \in CryptFields, client_nonce \in CryptFields, server_nonce \in CryptFields}

\* SOUNDBOARD_QUEUE_LIMIT_SAMPLES, scaled down from 960000 samples.
SoundboardLimitSamples == 3

\* The sequences over the two sample values of at most n samples.
SampleSeqs(n) == UNION {[1..k -> {1, 2}] : k \in 0..n}

\* Vec::drain(..n): the sequence without its first n elements.
DropFirst(seq, n) == SubSeq(seq, n + 1, Len(seq))

\* MediaRuntime::enqueue_soundboard_samples: soundboard_queue_48k after it.
enqueue_soundboard_samples(queue, samples_48k) ==
    IF samples_48k = <<>> THEN queue
    ELSE LET kept == IF Len(queue) >= SoundboardLimitSamples THEN <<>> ELSE queue
             available == saturating_sub(SoundboardLimitSamples, Len(kept))
             added == IF Len(samples_48k) > available
                      THEN DropFirst(samples_48k, Len(samples_48k) - available)
                      ELSE samples_48k
         IN  kept \o added

SoundboardCalls ==
    {[fn |-> "enqueue_soundboard_samples", queue |-> q, samples_48k |-> new] :
         q \in SampleSeqs(SoundboardLimitSamples),
         new \in SampleSeqs(SoundboardLimitSamples + 1)}

\* The longest sequence of levels given to one gate.
MaxVadFrames == 6

\* is_speaking called on every level of the sequence in turn: what it
\* returned each time.
RECURSIVE GateOutputs(_, _)
GateOutputs(vad, levels) ==
    IF levels = <<>> THEN <<>>
    ELSE LET out == is_speaking(vad, Head(levels)) IN
             <<out.speaking>> \o GateOutputs(out.vad, Tail(levels))

\* Levels below off_threshold, at it, between the thresholds, at on_threshold.
VadLevels == {6, 7, 9, VAD_THRESHOLD}

VadCalls ==
    {[fn |-> "is_speaking", levels |-> levels] :
         levels \in UNION {[1..n -> VadLevels] : n \in 1..MaxVadFrames}}

\* The arguments of should_conceal_gap: usize and u64 values.
ConcealCalls ==
    {[fn |-> "should_conceal_gap", buffered_len |-> b, gap_frames |-> g,
      force_gap_conceal |-> f, target_frames |-> t, max_frames |-> mx,
      gap_plc_trigger_frames |-> p] :
         b \in 0..5, g \in 0..3, f \in BOOLEAN, t \in {0, 2, 3}, mx \in {0, 4, 5},
         p \in {0, 1, 2}}


(***************************************************************************)
(* client.rs: derive_auth_profile and the Authenticate message of          *)
(* connect_mumble.  The four strings of config.rs are named after their    *)
(* constants; an Option<String> is the empty or the one-element sequence.  *)
(***************************************************************************)
DEFAULT_USER_PASSWORD == "DEFAULT_USER_PASSWORD"
SUPERUSER_TRIGGER_NICKNAME == "SUPERUSER_TRIGGER_NICKNAME"
SUPERUSER_AUTH_USERNAME == "SUPERUSER_AUTH_USERNAME"
SUPERUSER_AUTH_PASSWORD == "SUPERUSER_AUTH_PASSWORD"

None == <<>>
Some(x) == <<x>>

\* A derive_auth_profile that lets a configured password override the fixed one.
derive_auth_profile_keep_configured(nickname, password) ==
    IF nickname = SUPERUSER_TRIGGER_NICKNAME
    THEN [auth_username |-> SUPERUSER_AUTH_USERNAME,
          auth_password |-> IF password # None THEN password
                            ELSE Some(SUPERUSER_AUTH_PASSWORD)]
    ELSE [auth_username |-> nickname,
          auth_password |-> IF password # None THEN password
                            ELSE Some(DEFAULT_USER_PASSWORD)]

derive_auth_profile(nickname, password) ==
    IF nickname = SUPERUSER_TRIGGER_NICKNAME
    THEN [auth_username |-> SUPERUSER_AUTH_USERNAME,
          auth_password |-> Some(SUPERUSER_AUTH_PASSWORD)]
    ELSE [auth_username |-> nickname,
          auth_password |-> IF password # None THEN password
                            ELSE Some(DEFAULT_USER_PASSWORD)]

\* connect_mumble: the Authenticate message built from the profile; a field
\* that is not set stays None.
Authenticate(auth_profile) ==
    [username |-> Some(auth_profile.auth_username),
     password |-> IF auth_profile.auth_password # None
                  THEN auth_profile.auth_password ELSE None,
     opus |-> TRUE]

ConfigNicknames ==
    {SUPERUSER_TRIGGER_NICKNAME, "superuser_trigger_nickname", SUPERUSER_AUTH_USERNAME,
     "alice", ""}
ConfigPasswords ==
    {None, Some(""), Some("secret"), Some(DEFAULT_USER_PASSWORD),
     Some(SUPERUSER_AUTH_PASSWORD)}

AuthCalls ==
    {[fn |-> "connect_mumble", nickname |-> n, password |-> p] :
         n \in ConfigNicknames, p \in ConfigPasswords}


InitCalls ==
    /\ MediaIdle
    /\ call \in ReconnectDelayCalls \cup ApplyUserStateCalls \cup CryptSetupCalls
                \cup SoundboardCalls
                \cup AuthCalls
                \cup ConcealCalls
                \cup VadCalls
    /\ result = NoResult
    /\ SelfIdle
    /\ UdpIdle
    /\ WorkerIdle
    /\ JitterIdle

CallReconnectDelay ==
    /\ call.fn = "reconnect_delay"
    /\ result = NoResult
    /\ result' = [fn |-> call.fn, delay |-> reconnect_delay(call.attempt)]
    /\ UNCHANGED <<call, self_vars, voice_vars>>

CallApplyUserState ==
    /\ call.fn = "apply_user_state"
    /\ result = NoResult
    /\ result' = [fn |-> call.fn,
                  out |-> apply_user_state(call.roster, call.msg, call.current_self)]
    /\ UNCHANGED <<call, self_vars, voice_vars>>

CallCryptSetup ==
    /\ call.fn = "crypt_setup"
    /\ result = NoResult
    /\ result' = [fn |-> call.fn,
                  out |-> crypt_setup_arm(call.state, call.msg, call.send_ok)]
    /\ UNCHANGED <<call, self_vars, voice_vars>>

CallEnqueueSoundboard ==
    /\ call.fn = "enqueue_soundboard_samples"
    /\ result = NoResult
    /\ result' = [fn |-> call.fn,
                  queue |-> enqueue_soundboard_samples(call.queue, call.samples_48k)]
    /\ UNCHANGED <<call, self_vars, voice_vars>>

CallIsSpeaking ==
    /\ call.fn = "is_speaking"
    /\ result = NoResult
    /\ result' = [fn |-> call.fn,
                  speaking |-> GateOutputs(VoiceActivityDetector_new(VAD_THRESHOLD),
                                           call.levels)]
    /\ UNCHANGED <<call, self_vars, voice_vars>>

CallShouldConcealGap ==
    /\ call.fn = "should_conceal_gap"
    /\ result = NoResult
    /\ result' = [fn |-> call.fn,
                  conceal |-> should_conceal_gap(call.buffered_len, call.gap_frames,
                                                 call.force_gap_conceal,
                                                 call.target_frames, call.max_frames,
                                                 call.gap_plc_trigger_frames)]
    /\ UNCHANGED <<call, self_vars, voice_vars>>

CallConnectAuthenticate ==
    /\ call.fn = "connect_mumble"
    /\ result = NoResult
    /\ result' = [fn |-> call.fn,
                  authenticate |-> Authenticate(derive_auth_profile(call.nickname,
                                                                    call.password))]
    /\ UNCHANGED <<call, self_vars, voice_vars>>

NextCalls ==
    \/ CallReconnectDelay
    \/ CallApplyUserState
    \/ CallCryptSetup
    \/ CallEnqueueSoundboard
    \/ CallIsSpeaking
    \/ CallShouldConcealGap
    \/ CallConnectAuthenticate

SpecCalls == InitCalls /\ [][NextCalls]_vars

\* reconnect_delay has returned.
DelayReturned == call.fn = "reconnect_delay" /\ result # NoResult

\* C15: reconnect_delay(n) is 2^min(n,5) seconds for every n >= 0, in
\* particular 2, 4, 32, 32, 32 for n = 1, 2, 5, 6, 100; it never decreases
\* as n grows and never exceeds 32 s.
C15_ReconnectDelay ==
    DelayReturned =>
        /\ result.delay = DelayAfterFailures(call.attempt)
        /\ result.delay <= 32
        /\ call.attempt = 1 => result.delay = 2
        /\ call.attempt = 2 => result.delay = 4
        /\ call.attempt \in {5, 6, 100} => result.delay = 32
        /\ \A n \in 0..call.attempt : reconnect_delay(n) <= result.delay

C15_Witness == DelayReturned /\ call.attempt = 100 /\ result.delay = 32

\* apply_user_state has returned from a message that names a session.
UserStateApplied ==
    call.fn = "apply_user_state" /\ result # NoResult /\ call.msg.has_session

\* The message is about the client's own session.
ForSelf == call.roster.self_session = call.msg.session

\* C19: a UserState for the self session yields a SelfEvent with muted =
\* mute or self_mute and deafened = deaf or self_deaf of the message, and
\* ptt_enabled and transmitting of the current SelfEvent; a UserState for
\* another session yields no SelfEvent.
C19_SelfEventFromUserState ==
    UserStateApplied =>
        /\ result.out.has_self_event <=> ForSelf
        /\ ForSelf =>
               result.out.self_event =
                   SelfEvent((call.msg.has_mute /\ call.msg.mute)
                                 \/ (call.msg.has_self_mute /\ call.msg.self_mute),
                             (call.msg.has_deaf /\ call.msg.deaf)
                                 \/ (call.msg.has_self_deaf /\ call.msg.self_deaf),
                             call.current_self.ptt_enabled,
                             call.current_self.transmitting)

\* The case of the unit test: self_mute = true on {ptt_enabled, transmitting}.
C19_Witness ==
    /\ UserStateApplied
    /\ ForSelf
    /\ call.msg.has_self_mute /\ ~call.msg.has_mute
    /\ ~call.msg.has_deaf /\ ~call.msg.has_self_deaf
    /\ call.current_self = SelfEvent(FALSE, FALSE, TRUE, TRUE)
    /\ result.out.self_event = SelfEvent(TRUE, FALSE, TRUE, TRUE)

\* The user the message is about, before and after the call.
UserBefore == call.roster.users[call.msg.session]
UserAfter == result.out.roster.users[call.msg.session]

\* C20: on a user already in the roster a UserState changes only the
\* fields it carries: name, badge codes, channel id, muted and deafened keep
\* their value when the message carries no name, comment, channel_id,
\* mute/self_mute, deaf/self_deaf.
C20_UpsertKeepsFieldsNotCarried ==
    (UserStateApplied /\ UserBefore.present) =>
        /\ ~call.msg.has_name => UserAfter.name = UserBefore.name
        /\ ~call.msg.has_comment => UserAfter.badge_codes = UserBefore.badge_codes
        /\ ~call.msg.has_channel_id => UserAfter.channel_id = UserBefore.channel_id
        /\ ~(call.msg.has_mute \/ call.msg.has_self_mute) =>
               UserAfter.muted = UserBefore.muted
        /\ ~(call.msg.has_deaf \/ call.msg.has_self_deaf) =>
               UserAfter.deafened = UserBefore.deafened

(***************************************************************************)
(* The shared SelfEvent during one connection: the worker's handling of    *)
(* inbound control packets and of SetPtt, its media tick, and the UI       *)
(* command handlers of mod.rs, which run on other tasks.  Each access to   *)
(* the SelfEvent under its RwLock is one step.                             *)
(***************************************************************************)
MaxFramesPerTick == 3

\* The frames one media tick processes: should_tx of each.
TickFrames == UNION {[1..n -> {"voice", "silent"}] : n \in 0..MaxFramesPerTick}

\* The UserState messages the server sends in this specification.
InboundUserStates ==
    {UserState(Opt(TRUE, session), Opt(FALSE, ""), Opt(FALSE, EmptyComment),
               Opt(FALSE, 0), NoBool, self_mute, NoBool, NoBool) :
         session \in Sessions, self_mute \in {NoBool, Opt(TRUE, TRUE)}}
        \ {UserState(Opt(TRUE, 2), Opt(FALSE, ""), Opt(FALSE, EmptyComment),
                     Opt(FALSE, 0), NoBool, Opt(TRUE, TRUE), NoBool, NoBool)}

\* The worker is connected and in its inner loop.
WorkerLive ==
    /\ backoff_left = 0
    /\ failed_attempts = 0
    /\ pc = "live"
    /\ should_exit = FALSE
    /\ reconnect_attempt = 0
    /\ has_connected_once = TRUE
    /\ latest_reason = FALSE
    /\ command_queue = <<>>
    /\ command_tx = TRUE
    /\ connection_state = "Connected"
    /\ metrics_connected = TRUE
    /\ disconnecting = FALSE

InitSelf ==
    /\ MediaIdle
    /\ \E ptt_enabled \in BOOLEAN :
           self_state = SelfEvent(FALSE, FALSE, ptt_enabled, FALSE)
    /\ roster = ProtocolRoster_new
    /\ handler_pc = "idle"
    /\ handler_msg = EmptyUserState
    /\ current_self = DefaultSelfEvent
    /\ ptt_commands = <<>>
    /\ transmitting = FALSE
    /\ silence_frames = 0
    /\ last_write = NoWrite
    /\ self_op = "new"
    /\ silent_run = VOICE_HANGOVER_FRAMES
    /\ call = NoCall
    /\ result = NoResult
    /\ JitterIdle
    /\ UdpIdle
    /\ WorkerLive

Wrote(by, object) == [by |-> by, object |-> object]

\* mod.rs set_mute: the UI task writes the SelfEvent.
UiSetMute(muted) ==
    /\ self_state' = [self_state EXCEPT !.muted = muted]
    /\ last_write' = Wrote("ui", "self_state")
    /\ self_op' = "ui_command"
    /\ UNCHANGED <<roster, handler_pc, handler_msg, current_self, ptt_commands,
                   transmitting, silence_frames, silent_run>>
    /\ UNCHANGED <<call_vars, voice_vars>>

\* mod.rs set_deafen.
UiSetDeafen(deafened, auto_mute) ==
    /\ self_state' = [self_state EXCEPT
                          !.deafened = deafened,
                          !.muted = IF auto_mute /\ deafened THEN TRUE ELSE @]
    /\ last_write' = Wrote("ui", "self_state")
    /\ self_op' = "ui_command"
    /\ UNCHANGED <<roster, handler_pc, handler_msg, current_self, ptt_commands,
                   transmitting, silence_frames, silent_run>>
    /\ UNCHANGED <<call_vars, voice_vars>>

\* mod.rs set_ptt: after the config is persisted the UI task writes the
\* SelfEvent and sends SetPtt to the worker.
UiSetPtt(enabled, persist_ok) ==
    /\ Len(ptt_commands) < MaxQueued
    /\ IF persist_ok
       THEN /\ self_state' = [self_state EXCEPT !.ptt_enabled = enabled]
            /\ last_write' = Wrote("ui", "self_state")
            /\ ptt_commands' = Append(ptt_commands, enabled)
       ELSE UNCHANGED <<self_state, last_write, ptt_commands>>
    /\ self_op' = "ui_command"
    /\ UNCHANGED <<roster, handler_pc, handler_msg, current_self,
                   transmitting, silence_frames, silent_run>>
    /\ UNCHANGED <<call_vars, voice_vars>>

\* handle_live_command, SetPtt: the worker writes ptt_enabled.
LiveSetPtt ==
    /\ handler_pc = "idle"
    /\ ptt_commands # <<>>
    /\ self_state' = [self_state EXCEPT !.ptt_enabled = Head(ptt_commands)]
    /\ ptt_commands' = Tail(ptt_commands)
    /\ last_write' = Wrote("worker", "self_state")
    /\ self_op' = "live_command"
    /\ UNCHANGED <<roster, handler_pc, handler_msg, current_self,
                   transmitting, silence_frames, silent_run>>
    /\ UNCHANGED <<call_vars, voice_vars>>

\* The end of handle_control_packet for the roster r: the roster event is
\* written when roster_changed, and when no SelfEvent was written the
\* SelfEvent is refreshed from the self user under one write lock.
HandlerTail(r, roster_changed, self_changed, written_self) ==
    LET refresh == /\ ~self_changed
                   /\ r.self_session # NoSession
                   /\ r.users[r.self_session].present
    IN  /\ roster' = r
        /\ self_state' = IF refresh
                         THEN SelfEventFor(r.users[r.self_session], self_state)
                         ELSE IF self_changed THEN written_self ELSE self_state
        /\ last_write' = IF refresh THEN Wrote("worker", "self_state")
                         ELSE IF roster_changed THEN Wrote("worker", "roster")
                         ELSE IF self_changed THEN Wrote("worker", "self_state")
                         ELSE last_write
        /\ handler_pc' = "idle"
        /\ handler_msg' = EmptyUserState
        /\ current_self' = DefaultSelfEvent
        /\ self_op' = "handle_control_packet"

\* handle_control_packet, ServerSync (the session is the client's own).
ServerSync(session) ==
    /\ handler_pc = "idle"
    /\ roster.self_session = NoSession
    /\ HandlerTail([roster EXCEPT !.self_session = session], TRUE, FALSE, self_state)
    /\ UNCHANGED <<ptt_commands, transmitting, silence_frames, silent_run>>
    /\ UNCHANGED <<call_vars, voice_vars>>

\* handle_control_packet, UserRemove.
UserRemove(session) ==
    /\ handler_pc = "idle"
    /\ HandlerTail([roster EXCEPT !.users[session] = NoUser],
                   roster.users[session].present, FALSE, self_state)
    /\ UNCHANGED <<ptt_commands, transmitting, silence_frames, silent_run>>
    /\ UNCHANGED <<call_vars, voice_vars>>

\* handle_control_packet, UserState: the SelfEvent is cloned under a read
\* lock, which is released.
UserStateRead(msg) ==
    /\ handler_pc = "idle"
    /\ handler_pc' = "user_state"
    /\ handler_msg' = msg
    /\ current_self' = self_state
    /\ self_op' = "handle_control_packet"
    /\ UNCHANGED <<self_state, roster, ptt_commands, transmitting, silence_frames,
                   last_write, silent_run>>
    /\ UNCHANGED <<call_vars, voice_vars>>

\* handle_control_packet, UserState, the rest: apply_user_state on the
\* clone, the SelfEvent it returns is written under a write lock.
UserStateApply(joined) ==
    /\ handler_pc = "user_state"
    /\ LET out == apply_user_state(roster, handler_msg, current_self) IN
           HandlerTail(out.roster, out.changed \/ joined, out.has_self_event,
                       out.self_event)
    /\ UNCHANGED <<ptt_commands, transmitting, silence_frames, silent_run>>
    /\ UNCHANGED <<call_vars, voice_vars>>

\* MediaRuntime::set_transmitting_state on the state st of one tick.
set_transmitting_state(st, value) ==
    IF st.transmitting = value THEN st
    ELSE [st EXCEPT !.transmitting = value, !.wrote = TRUE]

\* One frame of the loop of pump_capture_and_send.
PumpFrame(st, frame) ==
    IF frame = "voice"
    THEN [st EXCEPT !.silence_frames = 0, !.sent_voice_frame = TRUE, !.silent_run = 0]
    ELSE LET counted == [st EXCEPT !.silent_run =
                                       IF @ < VOICE_HANGOVER_FRAMES THEN @ + 1 ELSE @]
         IN  IF ~st.transmitting THEN counted
             ELSE IF st.silence_frames + 1 >= VOICE_HANGOVER_FRAMES
                  THEN set_transmitting_state(
                           [counted EXCEPT !.silence_frames = 0], FALSE)
                  ELSE [counted EXCEPT !.silence_frames = @ + 1]

RECURSIVE PumpFrames(_, _)
PumpFrames(st, frames) ==
    IF frames = <<>> THEN st
    ELSE PumpFrames(PumpFrame(st, Head(frames)), Tail(frames))

\* After the loop of pump_capture_and_send.
PumpEnd(st) ==
    IF st.sent_voice_frame THEN set_transmitting_state(st, TRUE) ELSE st

\* The media tick: pump_capture_and_send on the frames captured since the
\* last tick, every send succeeding.
Pump(frames) ==
    /\ handler_pc = "idle"
    /\ LET st == PumpEnd(PumpFrames([transmitting |-> transmitting,
                                     silence_frames |-> silence_frames,
                                     sent_voice_frame |-> FALSE,
                                     wrote |-> FALSE,
                                     silent_run |-> silent_run], frames))
       IN  /\ transmitting' = st.transmitting
           /\ silence_frames' = st.silence_frames
           /\ silent_run' = st.silent_run
           /\ self_state' = IF st.wrote
                            THEN [self_state EXCEPT !.transmitting = st.transmitting]
                            ELSE self_state
           /\ last_write' = IF st.wrote THEN Wrote("worker", "self_state")
                            ELSE last_write
    /\ self_op' = "pump_capture_and_send"
    /\ UNCHANGED <<roster, handler_pc, handler_msg, current_self, ptt_commands>>
    /\ UNCHANGED <<call_vars, voice_vars>>

NextSelf ==
    \/ \E muted \in BOOLEAN : UiSetMute(muted)
    \/ \E deafened \in BOOLEAN, auto_mute \in BOOLEAN : UiSetDeafen(deafened, auto_mute)
    \/ \E enabled \in BOOLEAN, persist_ok \in BOOLEAN : UiSetPtt(enabled, persist_ok)
    \/ LiveSetPtt
    \/ \E session \in {1} : ServerSync(session)
    \/ \E session \in Sessions : UserRemove(session)
    \/ \E msg \in InboundUserStates : UserStateRead(msg)
    \/ \E joined \in BOOLEAN : UserStateApply(joined)
    \/ \E frames \in TickFrames : Pump(frames)

SpecSelf == InitSelf /\ [][NextSelf]_vars

\* A media tick has just ended.
TickEnded == self_op' = "pump_capture_and_send"

\* C16: transmitting is true from the first voice frame of an utterance
\* until VOICE_HANGOVER_FRAMES silent frames in a row have been processed:
\* at the end of every media tick the flag of the MediaRuntime and of the
\* SelfEvent is false when the last 4 processed frames were silent and true
\* when a voice frame is among them.
C16_TransmittingFollowsHangover ==
    [][TickEnded =>
          /\ transmitting' <=> (silent_run' < VOICE_HANGOVER_FRAMES)
          /\ self_state'.transmitting = transmitting']_vars

\* handle_control_packet has just returned.
HandlerReturned == self_op' = "handle_control_packet" /\ handler_pc' = "idle"

\* C17: whatever the UI's set_ptt calls do meanwhile, the write of the
\* handler of an inbound control packet leaves ptt_enabled of the shared
\* SelfEvent as it was just before that write.
C17_HandlerKeepsPttEnabled ==
    [][HandlerReturned => self_state'.ptt_enabled = self_state.ptt_enabled]_vars

\* C18: the worker is the only writer of the shared events: no write to
\* any of them is made by a UI command handler.
C18_WorkerIsSoleWriter == last_write.by # "ui"

(***************************************************************************)
(* The default-channel join of one connection: the channel messages of     *)
(* handle_control_packet and maybe_join_default_channel at its end.        *)
(* join.server_channel is the channel the server has the client in; the    *)
(* UserState the server sends for the client carries it.                   *)
(***************************************************************************)
ChannelState(has_channel_id, channel_id, name) ==
    [has_channel_id |-> has_channel_id, channel_id |-> channel_id,
     has_name |-> name.has, name |-> name.value]

InboundChannelStates ==
    {ChannelState(TRUE, c, name) :
         c \in ChannelIds, name \in {Opt(FALSE, "")} \cup {Opt(TRUE, n) : n \in ChannelNames}}
        \cup {ChannelState(FALSE, 0, Opt(TRUE, DefaultChannelName))}

\* format!("Channel {}", channel_id)
ChannelDefaultName(channel_id) == IF channel_id = 0 THEN "Channel 0" ELSE "Channel 1"

\* ProtocolRoster::apply_channel_state: the roster after the call, changed.
apply_channel_state(r, msg) ==
    IF ~msg.has_channel_id THEN [roster |-> r, changed |-> FALSE]
    ELSE LET known == r.channels[msg.channel_id]
             new_name == IF msg.has_name THEN msg.name
                         ELSE IF known # NoChannelName THEN known
                         ELSE ChannelDefaultName(msg.channel_id)
         IN  [roster |-> [r EXCEPT !.channels[msg.channel_id] = new_name],
              changed |-> known # new_name]

\* ProtocolRoster::remove_channel
remove_channel(r, channel_id) ==
    [roster |-> [r EXCEPT !.channels[channel_id] = NoChannelName],
     changed |-> r.channels[channel_id] # NoChannelName]

\* ProtocolRoster::target_channel_id, NoChannel for None.
target_channel_id(r) ==
    IF r.active_channel_id # NoChannel THEN r.active_channel_id
    ELSE IF r.self_session # NoSession /\ r.users[r.self_session].present
         THEN r.users[r.self_session].channel_id
         ELSE NoChannel

\* ProtocolRoster::default_channel_id: find_map over the HashMap returns any
\* channel of that name.
DefaultChannelChoices(r) ==
    LET named == {c \in ChannelIds : /\ r.channels[c] # NoChannelName
                                     /\ r.channels[c] = r.default_channel_name}
    IN  IF named = {} THEN {NoChannel} ELSE named

\* maybe_join_default_channel, target being what default_channel_id returned:
\* the roster after the call, Ok(joined), whether the UserState was sent, Err.
maybe_join_default_channel(r, target, send_ok) ==
    IF \/ r.default_channel_name = ""
       \/ r.default_channel_join_requested
       \/ target = NoChannel
    THEN [roster |-> r, joined |-> FALSE, sent |-> FALSE, err |-> FALSE]
    ELSE IF target_channel_id(r) = target
    THEN [roster |-> [r EXCEPT !.default_channel_join_requested = TRUE],
          joined |-> FALSE, sent |-> FALSE, err |-> FALSE]
    ELSE IF send_ok
    THEN [roster |-> [r EXCEPT !.default_channel_join_requested = TRUE],
          joined |-> TRUE, sent |-> TRUE, err |-> FALSE]
    ELSE [roster |-> r, joined |-> FALSE, sent |-> FALSE, err |-> TRUE]

\* handle_control_packet returns Err: the connection is over.
HandlerFails(r, self_changed, written_self) ==
    /\ join' = [join EXCEPT !.ended = TRUE]
    /\ roster' = r
    /\ self_state' = IF self_changed THEN written_self ELSE self_state
    /\ last_write' = IF self_changed THEN Wrote("worker", "self_state") ELSE last_write
    /\ handler_pc' = "idle"
    /\ handler_msg' = EmptyUserState
    /\ current_self' = DefaultSelfEvent
    /\ self_op' = "handle_control_packet"

\* The end of handle_control_packet with maybe_join_default_channel.  The
\* server moves the client to the channel it is asked for.
JoinTail(r, roster_changed, self_changed, written_self, send_ok) ==
    \E target \in DefaultChannelChoices(r) :
        LET j == maybe_join_default_channel(r, target, send_ok) IN
            IF j.err
            THEN HandlerFails(r, self_changed, written_self)
            ELSE /\ HandlerTail(j.roster, roster_changed \/ j.joined, self_changed,
                                written_self)
                 /\ join' = IF j.sent
                            THEN [join EXCEPT !.sent = @ + 1, !.target = target,
                                              !.server_channel = target]
                            ELSE join

JoinFrame ==
    /\ UNCHANGED <<ptt_commands, transmitting, silence_frames, silent_run>>
    /\ UNCHANGED <<inbound, playback, capture, adapt, tx>>
    /\ UNCHANGED <<call_vars, jitter_vars, udp_vars, worker_vars>>

\* handle_control_packet, ChannelState.
JoinChannelState(msg, send_ok) ==
    /\ handler_pc = "idle"
    /\ ~join.ended
    /\ LET out == apply_channel_state(roster, msg) IN
           JoinTail(out.roster, out.changed, FALSE, self_state, send_ok)
    /\ JoinFrame

\* handle_control_packet, ChannelRemove.
JoinChannelRemove(channel_id, send_ok) ==
    /\ handler_pc = "idle"
    /\ ~join.ended
    /\ LET out == remove_channel(roster, channel_id) IN
           JoinTail(out.roster, out.changed, FALSE, self_state, send_ok)
    /\ JoinFrame

\* handle_control_packet, ServerSync: set_self_session, the badge comment is
\* sent, then the end of the handler.
JoinServerSync(session, badge_ok, send_ok) ==
    /\ handler_pc = "idle"
    /\ ~join.ended
    /\ roster.self_session = NoSession
    /\ LET r == [roster EXCEPT !.self_session = session] IN
           IF badge_ok THEN JoinTail(r, TRUE, FALSE, self_state, send_ok)
           ELSE HandlerFails(r, FALSE, self_state)
    /\ JoinFrame

\* The UserState the server sends for the client: its session and channel.
OwnUserState ==
    UserState(Opt(TRUE, 1), Opt(FALSE, ""), Opt(FALSE, EmptyComment),
              Opt(TRUE, join.server_channel), NoBool, NoBool, NoBool, NoBool)

\* handle_control_packet, UserState for the client, up to the read lock.
JoinUserStateRead ==
    /\ ~join.ended
    /\ UserStateRead(OwnUserState)

\* handle_control_packet, UserState, the rest.
JoinUserStateApply(send_ok) ==
    /\ handler_pc = "user_state"
    /\ ~join.ended
    /\ LET out == apply_user_state(roster, handler_msg, current_self) IN
           JoinTail(out.roster, out.changed, out.has_self_event, out.self_event,
                    send_ok)
    /\ JoinFrame

InitJoin ==
    /\ \E name \in {"", DefaultChannelName} :
           roster = [ProtocolRoster_new EXCEPT !.default_channel_name = name]
    /\ \E c \in ChannelIds : join = [NoJoin EXCEPT !.server_channel = c]
    /\ inbound = NoInbound
    /\ playback = NoPlayback
    /\ capture = NoCapture
    /\ adapt = NoAdapt
    /\ tx = NoTx
    /\ self_state = DefaultSelfEvent
    /\ handler_pc = "idle"
    /\ handler_msg = EmptyUserState
    /\ current_self = DefaultSelfEvent
    /\ ptt_commands = <<>>
    /\ transmitting = FALSE
    /\ silence_frames = 0
    /\ last_write = NoWrite
    /\ self_op = "new"
    /\ silent_run = VOICE_HANGOVER_FRAMES
    /\ call = NoCall
    /\ result = NoResult
    /\ JitterIdle
    /\ UdpIdle
    /\ WorkerLive

NextJoin ==
    \/ \E msg \in InboundChannelStates, send_ok \in BOOLEAN : JoinChannelState(msg, send_ok)
    \/ \E c \in ChannelIds, send_ok \in BOOLEAN : JoinChannelRemove(c, send_ok)
    \/ \E badge_ok \in BOOLEAN, send_ok \in BOOLEAN : JoinServerSync(1, badge_ok, send_ok)
    \/ JoinUserStateRead
    \/ \E send_ok \in BOOLEAN : JoinUserStateApply(send_ok)

SpecJoin == InitJoin /\ [][NextJoin]_vars

\* A channel-switch UserState is sent.
SwitchSent == join'.sent > join.sent

\* C21: within one connection at most one channel-switch UserState is
\* sent, and it is sent only for a known channel that has the configured
\* default name and is not the channel the client is in.
C21_JoinOnceForOtherChannel ==
    [][SwitchSent =>
          /\ join'.sent = 1
          /\ roster'.channels[join'.target] = roster'.default_channel_name
          /\ join'.target # join.server_channel]_vars

(***************************************************************************)
(* The inbound streams and the decoders of MediaRuntime: frames arrive,    *)
(* the media tick drains, decodes, mixes and reaps idle streams.           *)
(***************************************************************************)
MEDIA_TICK_MS == 20
INBOUND_STREAM_IDLE_TIMEOUT_MS == 8000

\* How many times the clock advances.
MaxClockSteps == 3

InboundClockSteps == {MEDIA_TICK_MS, INBOUND_STREAM_IDLE_TIMEOUT_MS - MEDIA_TICK_MS}

InboundArrivalSeqs == {0, 960, 1920}

InboundTuning == JitterTuning_new_from_config(WorkerJitterTarget, WorkerJitterMax)

\* MediaRuntime::queue_inbound_voice on the stream of the session
\* (entry().or_default()), at the instant now.
queue_stream(s, seq_num, at) ==
    IF s.expected_seq # NoSeq /\ seq_num < s.expected_seq
    THEN [s EXCEPT !.present = TRUE]
    ELSE [s EXCEPT !.present = TRUE,
                   !.buffered = @ \cup {seq_num},
                   !.last_packet_at = at,
                   !.expected_seq = IF @ = NoSeq THEN seq_num ELSE @]

\* drain_inbound_playout, one stream: collect_decode_actions with the
\* force_gap_conceal of the stream.
collect_for_stream(s, at) ==
    collect_decode_actions(s, at - s.last_packet_at >= MEDIA_TICK_MS, InboundTuning)

\* decode_actions_for_stream: every action is decoded by decode_frame and the
\* frames are pushed on the decoded queue of the stream.
decode_actions_for_stream(s, at) ==
    LET r == collect_for_stream(s, at) IN
        IF ~s.present THEN s
        ELSE [r.stream EXCEPT !.decoded = @ + Len(r.actions)]

\* decode_frame creates the decoder of a session on its first use.
decoders_after_decode(ib) ==
    ib.decoders \cup {s \in Sessions : /\ ib.streams[s].present
                                        /\ collect_for_stream(ib.streams[s], ib.now).actions # <<>>}

\* mix_inbound_streams_for_playback pops one decoded frame of every stream.
mix_inbound_streams_for_playback(streams) ==
    [s \in Sessions |-> [streams[s] EXCEPT !.decoded = IF @ > 0 THEN @ - 1 ELSE 0]]

\* A cleanup that leaves the decoders of the sessions it removes.
remove_stale_keep_decoders(ib, stale) ==
    [ib EXCEPT !.streams = [s \in Sessions |-> IF s \in stale THEN NoStream ELSE @[s]],
               !.reaped = {[session |-> s,
                            idle_ms |-> ib.now - ib.streams[s].last_packet_at,
                            buffered |-> Cardinality(ib.streams[s].buffered),
                            decoded |-> ib.streams[s].decoded] : s \in stale}]

\* cleanup_idle_inbound_streams, the second loop: the stale streams and their
\* decoders are removed; reaped records what they were.
remove_stale(ib, stale) ==
    [ib EXCEPT !.streams = [s \in Sessions |-> IF s \in stale THEN NoStream ELSE @[s]],
               !.decoders = @ \ stale,
               !.reaped = {[session |-> s,
                            idle_ms |-> ib.now - ib.streams[s].last_packet_at,
                            buffered |-> Cardinality(ib.streams[s].buffered),
                            decoded |-> ib.streams[s].decoded] : s \in stale}]

\* cleanup_idle_inbound_streams, the first loop.
stale_streams(ib) ==
    {s \in Sessions : /\ ib.streams[s].present
                      /\ ib.now - ib.streams[s].last_packet_at >= INBOUND_STREAM_IDLE_TIMEOUT_MS
                      /\ ib.streams[s].buffered = {}
                      /\ ib.streams[s].decoded = 0}

cleanup_idle_inbound_streams(ib) == remove_stale(ib, stale_streams(ib))

InboundFrame ==
    /\ UNCHANGED <<self_vars, call_vars, jitter_vars, udp_vars, worker_vars>>
    /\ UNCHANGED <<join, playback, capture, adapt, tx>>

\* handle_incoming_voice: a frame of a session arrives.
InboundQueueVoice(session_id, seq_num) ==
    /\ ~inbound.ended
    /\ inbound' = [inbound EXCEPT
                       !.streams[session_id] = queue_stream(@, seq_num, inbound.now),
                       !.reaped = {}]
    /\ InboundFrame

\* Time passes.
InboundAdvanceClock(ms) ==
    /\ ~inbound.ended
    /\ inbound.steps < MaxClockSteps
    /\ inbound' = [inbound EXCEPT !.now = @ + ms, !.steps = @ + 1, !.reaped = {}]
    /\ InboundFrame

\* The media tick: drain_inbound_playout.  A decode_frame that fails ends the
\* connection and the MediaRuntime with it.
InboundDrainPlayout(decode_ok) ==
    /\ ~inbound.ended
    /\ \A s \in Sessions :
           inbound.streams[s].present =>
               collect_for_stream(inbound.streams[s], inbound.now).diverged = "no"
    /\ LET decoders == decoders_after_decode(inbound)
           drained == [s \in Sessions |->
                          decode_actions_for_stream(inbound.streams[s], inbound.now)]
           mixed == mix_inbound_streams_for_playback(drained)
       IN  IF ~decode_ok /\ decoders # inbound.decoders
           THEN inbound' = [NoInbound EXCEPT !.ended = TRUE, !.now = inbound.now,
                                              !.steps = inbound.steps]
           ELSE inbound' = cleanup_idle_inbound_streams(
                               [inbound EXCEPT !.streams = mixed, !.decoders = decoders])
    /\ InboundFrame

InitInbound ==
    /\ inbound = NoInbound
    /\ join = NoJoin
    /\ playback = NoPlayback
    /\ capture = NoCapture
    /\ adapt = NoAdapt
    /\ tx = NoTx
    /\ call = NoCall
    /\ result = NoResult
    /\ SelfIdle
    /\ JitterIdle
    /\ UdpIdle
    /\ WorkerIdle

NextInbound ==
    \/ \E s \in Sessions, seq_num \in InboundArrivalSeqs : InboundQueueVoice(s, seq_num)
    \/ \E ms \in InboundClockSteps : InboundAdvanceClock(ms)
    \/ \E decode_ok \in BOOLEAN : InboundDrainPlayout(decode_ok)

SpecInbound == InitInbound /\ [][NextInbound]_vars

\* The stream of the session is removed while the connection goes on.
StreamRemoved(s) ==
    /\ inbound.streams[s].present
    /\ ~inbound'.streams[s].present
    /\ ~inbound'.ended

\* C22: an inbound stream is removed only when its last packet is at least
\* 8 s old and its buffered map and decoded queue are both empty, and the
\* decoder of the session goes in the same step; a decoder exists only for
\* a session that has an inbound stream.
C22_ReapOnlyIdleAndWithDecoder ==
    /\ [][\A s \in Sessions :
              StreamRemoved(s) =>
                  /\ \E e \in inbound'.reaped :
                         /\ e.session = s
                         /\ e.idle_ms >= INBOUND_STREAM_IDLE_TIMEOUT_MS
                         /\ e.buffered = 0
                         /\ e.decoded = 0
                  /\ s \notin inbound'.decoders]_vars
    /\ [](\A s \in inbound.decoders : inbound.streams[s].present)

\* A stream that had a decoder has been reaped, another stream stays.
C22_Witness ==
    /\ \E e \in inbound.reaped : e.idle_ms >= INBOUND_STREAM_IDLE_TIMEOUT_MS
    /\ \E s \in Sessions : inbound.streams[s].present /\ s \in inbound.decoders

\* The CryptSetup arm of handle_control_packet has returned.
CryptSetupHandled == call.fn = "crypt_setup" /\ result # NoResult

\* key, client_nonce and server_nonce of the message are all empty.
NonceRequested ==
    call.msg.key.len = 0 /\ call.msg.client_nonce.len = 0 /\ call.msg.server_nonce.len = 0

\* C23: on a CryptSetup whose key, client_nonce and server_nonce are all
\* empty the client sends back exactly one CryptSetup that carries its
\* current encrypt nonce as client_nonce, whatever the crypt state is.
C23_RequestAnsweredInAnyState ==
    (CryptSetupHandled /\ NonceRequested /\ call.send_ok) =>
        /\ Len(result.out.sent) = 1
        /\ call.state.some
        /\ result.out.sent[1].client_nonce = call.state.encrypt_nonce

\* With a crypt state installed the all-empty CryptSetup is answered by one
\* CryptSetup carrying the encrypt nonce (a failed send ends the session);
\* with none installed nothing is sent and the session goes on; no other
\* CryptSetup is answered.
C23_RequestAnsweredWhenInstalled ==
    CryptSetupHandled =>
        /\ (NonceRequested /\ call.state.some /\ call.send_ok) =>
               /\ Len(result.out.sent) = 1
               /\ result.out.sent[1].client_nonce = call.state.encrypt_nonce
               /\ ~result.out.ended
               /\ result.out.crypt_state = call.state
        /\ (NonceRequested /\ call.state.some /\ ~call.send_ok) =>
               result.out.sent = <<>> /\ result.out.ended
        /\ (NonceRequested /\ ~call.state.some) =>
               /\ result.out.sent = <<>>
               /\ ~result.out.ended
               /\ result.out.crypt_state = NoCryptState
        /\ ~NonceRequested => result.out.sent = <<>>

C23_Witness ==
    /\ CryptSetupHandled
    /\ NonceRequested
    /\ call.state.some
    /\ Len(result.out.sent) = 1
    /\ result.out.sent[1].client_nonce = Bytes(CryptBlockLen, 1)

\* The field is exactly 16 bytes long.
IsBlock(field) == field.len = CryptBlockLen

\* C24: a fresh crypt state is installed if and only if key, client_nonce
\* and server_nonce are each exactly 16 bytes; the decrypt nonce is
\* resynchronized only when server_nonce is the lone non-empty field; every
\* other CryptSetup leaves the crypt state unchanged and does not end the
\* session.
C24_InstallResyncOrUnchanged ==
    CryptSetupHandled =>
        LET msg == call.msg
            full == IsBlock(msg.key) /\ IsBlock(msg.client_nonce) /\ IsBlock(msg.server_nonce)
            lone == msg.key.len = 0 /\ msg.client_nonce.len = 0 /\ msg.server_nonce.len # 0
            fresh == ClientCryptState_new_from(msg.key, msg.client_nonce, msg.server_nonce)
        IN  /\ (result.out.crypt_state = fresh) <=> full
            /\ (result.out.crypt_state # call.state /\ ~full) => lone
            /\ (~full /\ ~lone) =>
                   result.out.crypt_state = call.state /\ (call.send_ok => ~result.out.ended)
            /\ (lone /\ call.send_ok) => ~result.out.ended

(***************************************************************************)
(* The output queue between push_mono_48k (the worker) and the callback of *)
(* the output stream (the audio thread).  The queue is an ArrayQueue: len, *)
(* push and pop are the atomic steps.  playback.queue is its length.       *)
(***************************************************************************)
\* The capacity of the queue and the prefill threshold, in samples.
PlaybackCapacity == 4
PrefillSamples == 2

\* How far the counters of the statistics are followed.
MaxUnderflowEvents == 2
MaxOverflowDropped == 1

PlaybackFrame ==
    /\ UNCHANGED <<self_vars, call_vars, jitter_vars, udp_vars, worker_vars>>
    /\ UNCHANGED <<join, inbound, capture, adapt, tx>>

\* push_mono_48k, one sample: queue.push(clipped).
PlaybackPush ==
    /\ playback.push_pc = "idle"
    /\ playback.queue = PlaybackCapacity =>
           playback.overflow_dropped_samples < MaxOverflowDropped
    /\ playback' = IF playback.queue < PlaybackCapacity
                   THEN [playback EXCEPT !.queue = @ + 1]
                   ELSE [playback EXCEPT !.push_pc = "overflow_pop"]
    /\ PlaybackFrame

\* push_mono_48k, the queue was full: let _ = queue.pop().
PlaybackOverflowPop ==
    /\ playback.push_pc = "overflow_pop"
    /\ playback' = [playback EXCEPT !.queue = IF @ > 0 THEN @ - 1 ELSE 0,
                                    !.push_pc = "overflow_push"]
    /\ PlaybackFrame

\* push_mono_48k, the queue was full: the second push.
PlaybackOverflowPush ==
    /\ playback.push_pc = "overflow_push"
    /\ playback' = IF playback.queue < PlaybackCapacity
                   THEN [playback EXCEPT !.queue = @ + 1,
                                         !.overflow_dropped_samples = @ + 1,
                                         !.push_pc = "idle"]
                   ELSE [playback EXCEPT !.push_pc = "idle"]
    /\ PlaybackFrame

\* A gate that holds only while the queue is empty.
holds_silence_while_empty(pb) == ~pb.primed /\ pb.queue = 0

\* The callback, one frame: !primed && queue.len() < prefill_samples.
holds_silence(pb) == ~pb.primed /\ pb.queue < PrefillSamples

\* An underflow that leaves the gate open.
underflow_stays_primed(pb) ==
    [pb EXCEPT !.underflowing = TRUE,
               !.underflow_events = IF pb.underflowing THEN @ ELSE @ + 1,
               !.events_since_pop = IF pb.underflowing THEN @ ELSE @ + 1]

\* The callback, one frame, queue.pop() returned None.
underflow(pb) ==
    [pb EXCEPT !.primed = FALSE,
               !.underflowing = TRUE,
               !.underflow_events = IF pb.underflowing THEN @ ELSE @ + 1,
               !.events_since_pop = IF pb.underflowing THEN @ ELSE @ + 1]

\* The callback, one frame, up to the test of the gate: silence, or on to
\* queue.pop().
CallbackGate ==
    /\ playback.cb_pc = "idle"
    /\ playback' = IF holds_silence(playback)
                   THEN [playback EXCEPT !.last = "silence", !.seen_len = playback.queue]
                   ELSE [playback EXCEPT !.cb_pc = "pop", !.seen_len = playback.queue]
    /\ PlaybackFrame

\* The callback, one frame, queue.pop() and what follows it.
CallbackPop ==
    /\ playback.cb_pc = "pop"
    /\ (playback.queue = 0 /\ ~playback.underflowing) =>
           playback.underflow_events < MaxUnderflowEvents
    /\ playback' = IF playback.queue > 0
                   THEN [playback EXCEPT !.queue = @ - 1, !.primed = TRUE,
                                         !.underflowing = FALSE, !.cb_pc = "idle",
                                         !.last = "sample", !.popped_once = TRUE,
                                         !.events_since_pop = 0]
                   ELSE [underflow(playback) EXCEPT !.cb_pc = "idle",
                                                   !.last = "underflow"]
    /\ PlaybackFrame

InitPlayback ==
    /\ playback = NoPlayback
    /\ join = NoJoin
    /\ inbound = NoInbound
    /\ capture = NoCapture
    /\ adapt = NoAdapt
    /\ tx = NoTx
    /\ call = NoCall
    /\ result = NoResult
    /\ SelfIdle
    /\ JitterIdle
    /\ UdpIdle
    /\ WorkerIdle

NextPlayback ==
    \/ PlaybackPush
    \/ PlaybackOverflowPop
    \/ PlaybackOverflowPush
    \/ CallbackGate
    \/ CallbackPop

SpecPlayback == InitPlayback /\ [][NextPlayback]_vars

\* The callback is at the start of a frame with the gate closed.
GateClosed == playback.cb_pc = "idle" /\ ~playback.primed

\* The callback takes its next step.
CallbackSteps ==
    playback'.cb_pc # playback.cb_pc \/ playback'.last # playback.last
        \/ playback'.seen_len # playback.seen_len

\* The callback pops a sample.
Pops == playback.cb_pc = "pop" /\ playback'.cb_pc = "idle" /\ playback'.last = "sample"

\* The open gate finds the queue empty.
OpenGateFindsEmpty ==
    /\ playback.cb_pc = "pop"
    /\ playback'.cb_pc = "idle"
    /\ playback.primed
    /\ playback'.last = "underflow"

C26_UnderflowCountedOnce ==
    /\ [][(playback'.underflow_events = playback.underflow_events + 1)
              <=> OpenGateFindsEmpty]_vars
    /\ [][playback'.underflow_events \in
              {playback.underflow_events, playback.underflow_events + 1}]_vars
    /\ [](playback.events_since_pop <= 1)
    /\ [](~playback.popped_once => playback.underflow_events = 0)

\* The second underflow, after the gate opened again.
C26_Witness ==
    /\ playback.underflow_events = 2
    /\ playback.last = "underflow"
    /\ playback.events_since_pop = 1

(***************************************************************************)
(* The input capture: the callback of the input stream sends every chunk   *)
(* on an mpsc::channel, the worker drains it with try_recv.  capture.queue *)
(* is the number of chunks in the channel.                                 *)
(***************************************************************************)
\* A capacity the channel would have.
CaptureCapacity == 2

\* How many chunks the callback produces, and how many the channel is
\* followed to.
MaxChunks == 12
MaxCaptureQueued == CaptureCapacity + 1

CaptureFrame ==
    /\ UNCHANGED <<self_vars, call_vars, jitter_vars, udp_vars, worker_vars>>
    /\ UNCHANGED <<join, inbound, playback, adapt, tx>>

\* mpsc::Sender::send on the channel of mpsc::channel(): Ok while the
\* receiver exists, whatever the number of chunks in the channel.
send(c) == IF c.receiver THEN [ok |-> TRUE, queue |-> c.queue + 1]
           ELSE [ok |-> FALSE, queue |-> c.queue]

\* The callback of build_input_stream: one chunk.
CaptureCallback ==
    /\ capture.delivered_chunks + capture.dropped_chunks < MaxChunks
    /\ capture.queue < MaxCaptureQueued
    /\ LET sent == send(capture) IN
           capture' = IF sent.ok
                      THEN [capture EXCEPT !.queue = sent.queue, !.delivered_chunks = @ + 1]
                      ELSE [capture EXCEPT !.dropped_chunks = @ + 1]
    /\ CaptureFrame

\* InputCapture::drain_samples: try_recv until the channel is empty.
CaptureDrainSamples ==
    /\ capture.receiver
    /\ capture.queue > 0
    /\ capture' = [capture EXCEPT !.queue = 0]
    /\ CaptureFrame

\* The InputCapture is dropped (the device is replaced or the MediaRuntime
\* ends), and the receiver with it.
CaptureDropped ==
    /\ capture.receiver
    /\ capture' = [capture EXCEPT !.receiver = FALSE, !.queue = 0]
    /\ CaptureFrame

InitCapture ==
    /\ capture = NoCapture
    /\ join = NoJoin
    /\ inbound = NoInbound
    /\ playback = NoPlayback
    /\ adapt = NoAdapt
    /\ tx = NoTx
    /\ call = NoCall
    /\ result = NoResult
    /\ SelfIdle
    /\ JitterIdle
    /\ UdpIdle
    /\ WorkerIdle

NextCapture ==
    \/ CaptureCallback
    \/ CaptureDrainSamples
    \/ CaptureDropped

SpecCapture == InitCapture /\ [][NextCapture]_vars

\* The callback has produced a chunk.
ChunkProduced ==
    capture'.delivered_chunks + capture'.dropped_chunks
        = capture.delivered_chunks + capture.dropped_chunks + 1

\* C27: the input capture queue is bounded: a chunk produced while it is
\* full is dropped and dropped_chunks goes up by one; delivered_chunks
\* counts only the chunks that were enqueued.
C27_DropNewestWhenFull ==
    /\ [](capture.queue <= CaptureCapacity)
    /\ [][(ChunkProduced /\ capture.receiver /\ capture.queue = CaptureCapacity) =>
              /\ capture'.queue = capture.queue
              /\ capture'.dropped_chunks = capture.dropped_chunks + 1
              /\ capture'.delivered_chunks = capture.delivered_chunks]_vars
    /\ [][capture'.delivered_chunks = capture.delivered_chunks + 1 =>
              capture'.queue = capture.queue + 1]_vars

\* enqueue_soundboard_samples has returned.
SoundboardEnqueued == call.fn = "enqueue_soundboard_samples" /\ result # NoResult

\* The previous queue followed by the new samples.
SoundboardOffered == call.queue \o call.samples_48k

\* C28: the soundboard queue never holds more than the limit; an enqueue
\* that would exceed the limit leaves the most recent samples of the
\* previous queue followed by the new samples, as many as the limit.
C28_KeepsMostRecent ==
    SoundboardEnqueued =>
        /\ Len(result.queue) <= SoundboardLimitSamples
        /\ Len(SoundboardOffered) > SoundboardLimitSamples =>
               result.queue = DropFirst(SoundboardOffered,
                                        Len(SoundboardOffered) - SoundboardLimitSamples)

(***************************************************************************)
(* The adaptation of the codec and of the jitter buffer to the packet loss *)
(* of the UDP path: adapt_codec_if_needed, once a second.                  *)
(***************************************************************************)
\* voice_quality of the configuration: any integers.
ConfigBitrates == {16000, 34000, 48000, 100000}
ConfigPacketLoss == {0 - 5, 10, 40}
ConfigAdaptJitterTargets == {1, 3, 8}
ConfigAdaptJitterMaxes == {3, 10, 20}

\* What crypt.get_good(), get_late() and get_lost() return.
UdpTransportStats ==
    {[some |-> TRUE, good |-> t[1], late |-> t[2], lost |-> t[3]] :
         t \in {<<0, 0, 0>>, <<100, 0, 0>>, <<100, 3, 0>>, <<97, 3, 0>>, <<94, 3, 3>>,
                <<94, 6, 6>>, <<88, 6, 6>>, <<0, 0, 6>>}}

\* Tiers that start above 3 %, 6 %, 12 %.
loss_tier_above(bad, total) ==
    IF 100 * bad > 12 * total THEN 3
    ELSE IF 100 * bad > 6 * total THEN 2
    ELSE IF 100 * bad > 3 * total THEN 1
    ELSE 0

\* adapt_codec_if_needed: loss_rate = bad / total against 0.12, 0.06, 0.03.
loss_tier(bad, total) ==
    IF 100 * bad >= 12 * total THEN 3
    ELSE IF 100 * bad >= 6 * total THEN 2
    ELSE IF 100 * bad >= 3 * total THEN 1
    ELSE 0

\* apply_codec_tuning_if_changed; the encoder accepts every bitrate and
\* packet-loss percentage of the clamped ranges.
apply_codec_tuning_if_changed(codec, bitrate_bps, packet_loss_pct) ==
    [codec EXCEPT
         !.current_bitrate_bps = clamp(bitrate_bps, OPUS_BITRATE_MIN_BPS,
                                       OPUS_BITRATE_MAX_BPS),
         !.current_packet_loss_pct = clamp(packet_loss_pct, 0, 25)]

\* adapt_codec_if_needed after the interval test, with a crypt state and
\* earlier statistics: previous and current are the two readings.
adapt_to_loss(a, previous, current) ==
    LET good_delta == saturating_sub(current.good, previous.good)
        late_delta == saturating_sub(current.late, previous.late)
        lost_delta == saturating_sub(current.lost, previous.lost)
        total_delta == good_delta + late_delta + lost_delta
        bad == late_delta + lost_delta
        tier == loss_tier(bad, total_delta)
        codec == a.codec_tuning
        jitter == a.jitter_tuning
        target_bitrate ==
            IF tier = 3 THEN clamp((codec.baseline_bitrate_bps * 85) \div 100,
                                   OPUS_BITRATE_MIN_BPS, OPUS_BITRATE_MAX_BPS)
            ELSE IF tier = 2 THEN clamp((codec.baseline_bitrate_bps * 92) \div 100,
                                        OPUS_BITRATE_MIN_BPS, OPUS_BITRATE_MAX_BPS)
            ELSE IF tier = 1 THEN clamp(codec.baseline_bitrate_bps,
                                        OPUS_BITRATE_MIN_BPS, OPUS_BITRATE_MAX_BPS)
            ELSE codec.baseline_bitrate_bps
        target_loss == IF tier = 3 THEN 20 ELSE IF tier = 2 THEN 14
                       ELSE IF tier = 1 THEN 11 ELSE codec.baseline_packet_loss_pct
        jitter_target ==
            IF tier = 3 THEN clamp(jitter.baseline_target_frames + 2,
                                   RX_JITTER_TARGET_MIN, RX_JITTER_TARGET_MAX)
            ELSE IF tier = 2 THEN clamp(jitter.baseline_target_frames + 1,
                                        RX_JITTER_TARGET_MIN, RX_JITTER_TARGET_MAX)
            ELSE jitter.baseline_target_frames
        jitter_max0 ==
            IF tier = 3 THEN clamp(jitter.baseline_max_frames + 3,
                                   RX_JITTER_MAX_MIN, RX_JITTER_MAX_MAX)
            ELSE IF tier = 2 THEN clamp(jitter.baseline_max_frames + 2,
                                        RX_JITTER_MAX_MIN, RX_JITTER_MAX_MAX)
            ELSE jitter.baseline_max_frames
        jitter_max == IF jitter_max0 <= jitter_target
                      THEN clamp(jitter_target + 2, RX_JITTER_MAX_MIN, RX_JITTER_MAX_MAX)
                      ELSE jitter_max0
    IN  IF total_delta = 0
        THEN [a EXCEPT !.last = [step |-> "no_packets"]]
        ELSE [a EXCEPT
                 !.jitter_tuning.target_frames = jitter_target,
                 !.jitter_tuning.max_frames = jitter_max,
                 !.codec_tuning = apply_codec_tuning_if_changed(codec, target_bitrate,
                                                                target_loss),
                 !.last = [step |-> "adapted", bad |-> bad, total |-> total_delta]]

\* adapt_codec_if_needed: due is whether CODEC_ADAPT_INTERVAL_MS has elapsed,
\* crypt the statistics of the crypt state, NoStats without a crypt state.
adapt_codec_if_needed(a, due, crypt) ==
    IF ~due THEN [a EXCEPT !.last = [step |-> "not_due"]]
    ELSE IF ~crypt.some
    THEN [a EXCEPT
             !.codec_tuning = apply_codec_tuning_if_changed(
                                  @, @.baseline_bitrate_bps, @.baseline_packet_loss_pct),
             !.jitter_tuning.target_frames = a.jitter_tuning.baseline_target_frames,
             !.jitter_tuning.max_frames = a.jitter_tuning.baseline_max_frames,
             !.last = [step |-> "no_crypt"]]
    ELSE IF ~a.last_udp_stats.some
    THEN [a EXCEPT !.last_udp_stats = crypt, !.last = [step |-> "first"]]
    ELSE adapt_to_loss([a EXCEPT !.last_udp_stats = crypt], a.last_udp_stats, crypt)

\* The media tick calls adapt_codec_if_needed.
AdaptCodecIfNeeded(due, crypt) ==
    /\ adapt' = adapt_codec_if_needed(adapt, due, crypt)
    /\ UNCHANGED <<self_vars, call_vars, jitter_vars, udp_vars, worker_vars>>
    /\ UNCHANGED <<join, inbound, playback, capture, tx>>

InitAdapt ==
    /\ \E bitrate \in ConfigBitrates, loss \in ConfigPacketLoss,
          target \in ConfigAdaptJitterTargets, max \in ConfigAdaptJitterMaxes :
           adapt = MediaRuntime_new(bitrate, loss, target, max)
    /\ join = NoJoin
    /\ inbound = NoInbound
    /\ playback = NoPlayback
    /\ capture = NoCapture
    /\ tx = NoTx
    /\ call = NoCall
    /\ result = NoResult
    /\ SelfIdle
    /\ JitterIdle
    /\ UdpIdle
    /\ WorkerIdle

NextAdapt ==
    \E due \in BOOLEAN, crypt \in UdpTransportStats \cup {NoStats} :
        AdaptCodecIfNeeded(due, crypt)

SpecAdapt == InitAdapt /\ [][NextAdapt]_vars

\* The latest adaptation step had packets to judge by.
Adapted == adapt.last.step = "adapted"

\* The loss rate of the step is at least num / 100 and below den / 100.
LossWithin(num, den) ==
    /\ 100 * adapt.last.bad >= num * adapt.last.total
    /\ 100 * adapt.last.bad < den * adapt.last.total

\* Bitrate, packet-loss percentage, jitter target and jitter max are these.
TunedTo(bitrate, loss, target, max) ==
    /\ adapt.codec_tuning.current_bitrate_bps
           = clamp(bitrate, OPUS_BITRATE_MIN_BPS, OPUS_BITRATE_MAX_BPS)
    /\ adapt.codec_tuning.current_packet_loss_pct = clamp(loss, 0, 25)
    /\ adapt.jitter_tuning.target_frames
           = clamp(target, RX_JITTER_TARGET_MIN, RX_JITTER_TARGET_MAX)
    /\ adapt.jitter_tuning.max_frames = clamp(max, RX_JITTER_MAX_MIN, RX_JITTER_MAX_MAX)

C30_TuningInRange ==
    /\ adapt.codec_tuning.current_bitrate_bps \in OPUS_BITRATE_MIN_BPS..OPUS_BITRATE_MAX_BPS
    /\ adapt.codec_tuning.current_packet_loss_pct \in 0..25
    /\ adapt.jitter_tuning.target_frames \in RX_JITTER_TARGET_MIN..RX_JITTER_TARGET_MAX
    /\ adapt.jitter_tuning.max_frames \in RX_JITTER_MAX_MIN..RX_JITTER_MAX_MAX
    /\ adapt.jitter_tuning.max_frames > adapt.jitter_tuning.target_frames
    /\ adapt.codec_tuning.baseline_bitrate_bps = adapt.started.codec_tuning.baseline_bitrate_bps
    /\ adapt.codec_tuning.baseline_packet_loss_pct
           = adapt.started.codec_tuning.baseline_packet_loss_pct
    /\ adapt.jitter_tuning.baseline_target_frames
           = adapt.started.jitter_tuning.baseline_target_frames
    /\ adapt.jitter_tuning.baseline_max_frames
           = adapt.started.jitter_tuning.baseline_max_frames

\* Heavy loss on a configuration that was out of range on every value.
C30_Witness ==
    /\ Adapted
    /\ LossWithin(12, 101)
    /\ adapt.started.codec_tuning.baseline_bitrate_bps = OPUS_BITRATE_MAX_BPS
    /\ adapt.started.codec_tuning.baseline_packet_loss_pct = 25
    /\ adapt.jitter_tuning.target_frames = RX_JITTER_TARGET_MAX
    /\ adapt.jitter_tuning.max_frames = 13

\* is_speaking has returned for every frame of the sequence.
GateRan == call.fn = "is_speaking" /\ result # NoResult

\* The thresholds of the detector.
OnThreshold == VAD_THRESHOLD
OffThreshold == (VAD_THRESHOLD * 7) \div 10

\* The gate was open after frame i (closed before the first frame).
OpenAfter(i) == i >= 1 /\ result.speaking[i]

\* Frame i kept the open gate open by its level.
HeldOpenAt(i) == OpenAfter(i) /\ call.levels[i] >= OffThreshold

\* C31: is_speaking returns the output of the hysteresis machine: closed,
\* the gate opens iff level >= on_threshold; open, it stays open on a level
\* >= off_threshold and for 3 more frames after the last such frame, and
\* closes on the 4th consecutive frame below off_threshold.
C31_VadHysteresis ==
    GateRan =>
        \A i \in 1..Len(call.levels) :
            result.speaking[i] <=>
                IF OpenAfter(i - 1)
                THEN \/ call.levels[i] >= OffThreshold
                     \/ \E k \in 1..(i - 1) : i - k <= 3 /\ HeldOpenAt(k)
                ELSE call.levels[i] >= OnThreshold

\* Open, three frames held below off_threshold, closed on the fourth.
C31_Witness ==
    /\ GateRan
    /\ call.levels = <<10, 7, 6, 6, 6, 6>>
    /\ result.speaking = <<TRUE, TRUE, TRUE, TRUE, TRUE, FALSE>>

\* should_conceal_gap has returned.
ConcealDecided == call.fn = "should_conceal_gap" /\ result # NoResult

\* C32: should_conceal_gap is true iff buffered_len >= max, or
\* buffered_len >= target and gap >= plc_trigger, or force and gap >= 1.
C32_ConcealPolicy ==
    ConcealDecided =>
        (result.conceal <=>
            \/ call.buffered_len >= call.max_frames
            \/ call.buffered_len >= call.target_frames
                   /\ call.gap_frames >= call.gap_plc_trigger_frames
            \/ call.force_gap_conceal /\ call.gap_frames >= 1)

\* The full buffer alone decides: no gap, nothing forced.
C32_Witness ==
    /\ ConcealDecided
    /\ call.buffered_len = 4 /\ call.max_frames = 4 /\ call.target_frames = 2
    /\ call.gap_frames = 0 /\ ~call.force_gap_conceal /\ call.gap_plc_trigger_frames = 2
    /\ result.conceal

\* connect_mumble has built its Authenticate message.
AuthenticateBuilt == call.fn = "connect_mumble" /\ result # NoResult

\* C33: the trigger nickname authenticates with the fixed superuser username
\* and password whatever password is configured; any other nickname
\* authenticates as itself with the configured password, or with the default
\* user password when none is configured.
C33_AuthSubstitution ==
    AuthenticateBuilt =>
        IF call.nickname = SUPERUSER_TRIGGER_NICKNAME
        THEN /\ result.authenticate.username = Some(SUPERUSER_AUTH_USERNAME)
             /\ result.authenticate.password = Some(SUPERUSER_AUTH_PASSWORD)
        ELSE /\ result.authenticate.username = Some(call.nickname)
             /\ result.authenticate.password =
                    IF call.password = None THEN Some(DEFAULT_USER_PASSWORD)
                    ELSE call.password

\* The trigger nickname with another password configured.
C33_Witness ==
    /\ AuthenticateBuilt
    /\ call.nickname = SUPERUSER_TRIGGER_NICKNAME
    /\ call.password = Some("secret")
    /\ result.authenticate.password = Some(SUPERUSER_AUTH_PASSWORD)

\* C34: collect_decode_actions returns, with a finite list of actions, for
\* every stream state and every jitter tuning: no drain diverges.
C34_DrainReturns == drain_diverged = "no"

(***************************************************************************)
(* SpecTx: the transmit side of one MediaRuntime.  capture_48k and         *)
(* soundboard_queue_48k are counted in frames of OPUS_FRAME_SAMPLES        *)
(* samples; a packet is what went into its frame: captured samples (mic),  *)
(* soundboard samples, or the silence of a terminator.  Every encode and   *)
(* every send succeeds.                                                    *)
(***************************************************************************)
MaxCaptureFrames == 2
MaxSoundboardFrames == 2

\* The rms levels of the mixed frames, in thousandths.
TxLevels == {0, VAD_THRESHOLD}

should_send_voice_frame(has_soundboard_audio, mic_gate_open) ==
    has_soundboard_audio \/ mic_gate_open

\* MediaRuntime::should_transmit: the runtime's detector after the call and
\* whether the microphone gate is open.
should_transmit(rt, level) ==
    IF rt.muted \/ rt.deafened
    THEN [vad |-> rt.vad, speaking |-> FALSE]
    ELSE is_speaking(rt.vad, level)

AudioPacket(mic, soundboard, muted) ==
    [mic |-> mic, soundboard |-> soundboard, terminator |-> FALSE, muted |-> muted]

\* send_termination_packet: an encoded frame of zeros with the end flag.
TerminationPacket(muted) ==
    [mic |-> FALSE, soundboard |-> FALSE, terminator |-> TRUE, muted |-> muted]

\* MediaRuntime::set_transmitting_state: nothing when the runtime's flag has
\* the value already, else the flag and the shared SelfEvent are written.
tx_set_transmitting_state(rt, value) ==
    IF rt.transmitting = value THEN rt
    ELSE [rt EXCEPT !.transmitting = value, !.shared_transmitting = value]

\* The loop of pump_capture_and_send; levels are the levels of the frames
\* it builds, sent_voice_frame its local flag.
RECURSIVE PumpLoop(_, _, _)
PumpLoop(rt, levels, sent_voice_frame) ==
    IF ~(rt.capture_48k >= 1 \/ rt.soundboard_queue_48k # 0)
    THEN [rt |-> rt, sent_voice_frame |-> sent_voice_frame]
    ELSE LET mic == rt.capture_48k >= 1
             soundboard_take == IF rt.soundboard_queue_48k < 1 THEN rt.soundboard_queue_48k ELSE 1
             soundboard_gate_open == soundboard_take > 0 /\ ~rt.deafened
             gate == should_transmit(rt, Head(levels))
             should_tx == should_send_voice_frame(soundboard_gate_open, gate.speaking)
             taken == [rt EXCEPT !.capture_48k = IF mic THEN @ - 1 ELSE @,
                                 !.soundboard_queue_48k = @ - soundboard_take,
                                 !.vad = gate.vad]
         IN  IF should_tx
             THEN PumpLoop([taken EXCEPT
                                !.silence_frames = 0,
                                !.sent = Append(@, AudioPacket(mic, soundboard_take > 0,
                                                               rt.muted))],
                           Tail(levels), TRUE)
             ELSE IF rt.transmitting
             THEN IF rt.silence_frames + 1 >= VOICE_HANGOVER_FRAMES
                  THEN PumpLoop(tx_set_transmitting_state(
                                    [taken EXCEPT
                                         !.silence_frames = 0,
                                         !.sent = Append(@, TerminationPacket(rt.muted))],
                                    FALSE),
                                Tail(levels), sent_voice_frame)
                  ELSE PumpLoop([taken EXCEPT !.silence_frames = @ + 1],
                                Tail(levels), sent_voice_frame)
             ELSE PumpLoop(taken, Tail(levels), sent_voice_frame)

\* MediaRuntime::pump_capture_and_send
pump_capture_and_send(rt, levels) ==
    LET out == PumpLoop([rt EXCEPT !.sent = <<>>], levels, FALSE)
        after == IF out.sent_voice_frame
                 THEN tx_set_transmitting_state(out.rt, TRUE)
                 ELSE out.rt
    IN  [after EXCEPT !.gated = out.sent_voice_frame]

\* The passes of the loop on rt: one per frame of the longer queue.
PumpPasses(rt) ==
    IF rt.capture_48k >= rt.soundboard_queue_48k THEN rt.capture_48k
    ELSE rt.soundboard_queue_48k

TxFrame == UNCHANGED <<self_vars, call_vars, jitter_vars, udp_vars, worker_vars>>

\* The media_tick arm of the inner loop.
TxPump(levels) ==
    /\ tx.worker = "live"
    /\ Len(levels) = PumpPasses(tx)
    /\ tx' = pump_capture_and_send(tx, levels)
    /\ TxFrame
    /\ UNCHANGED <<join, inbound, playback, capture, adapt>>

\* The input callback delivers a frame of samples, which the next pump
\* drains into capture_48k.
TxCapture ==
    /\ tx.worker = "live"
    /\ tx.input_capture
    /\ tx.capture_48k < MaxCaptureFrames
    /\ tx' = [tx EXCEPT !.capture_48k = @ + 1]
    /\ TxFrame
    /\ UNCHANGED <<join, inbound, playback, capture, adapt>>

\* handle_live_command, QueueSoundboardSamples: a frame of samples.
TxQueueSoundboard ==
    /\ tx.worker = "live"
    /\ tx.soundboard_queue_48k < MaxSoundboardFrames
    /\ tx' = [tx EXCEPT !.soundboard_queue_48k = @ + 1]
    /\ TxFrame
    /\ UNCHANGED <<join, inbound, playback, capture, adapt>>

\* handle_live_command, SetMute: MediaRuntime::set_muted.
TxSetMute(muted) ==
    /\ tx.worker = "live"
    /\ tx' = [tx EXCEPT !.muted = muted]
    /\ TxFrame
    /\ UNCHANGED <<join, inbound, playback, capture, adapt>>

\* handle_live_command, SetDeafen: MediaRuntime::set_deafened.
TxSetDeafen(deafened) ==
    /\ tx.worker = "live"
    /\ tx' = [tx EXCEPT !.deafened = deafened]
    /\ TxFrame
    /\ UNCHANGED <<join, inbound, playback, capture, adapt>>

\* The inner loop ends with an error (a failed send, a lost connection) and
\* the worker connects again: MediaRuntime::new.
TxReconnect ==
    /\ tx.worker = "live"
    /\ tx' = [MediaRuntime_tx(tx.input_capture, tx.muted, tx.deafened) EXCEPT
                  !.shared_transmitting = tx.shared_transmitting]
    /\ TxFrame
    /\ UNCHANGED <<join, inbound, playback, capture, adapt>>

\* Disconnect: the inner loop breaks and run_voice_worker returns.
TxWorkerExit ==
    /\ tx.worker = "live"
    /\ tx' = [tx EXCEPT !.worker = "exited"]
    /\ TxFrame
    /\ UNCHANGED <<join, inbound, playback, capture, adapt>>

InitTx ==
    /\ SelfIdle
    /\ call = NoCall
    /\ result = NoResult
    /\ JitterIdle
    /\ UdpIdle
    /\ WorkerIdle
    /\ join = NoJoin
    /\ inbound = NoInbound
    /\ playback = NoPlayback
    /\ capture = NoCapture
    /\ adapt = NoAdapt
    /\ \E input_capture \in BOOLEAN, muted \in BOOLEAN, deafened \in BOOLEAN :
           tx = MediaRuntime_tx(input_capture, muted, deafened)

TxPumps ==
    \E levels \in UNION {[1..n -> TxLevels] : n \in 0..(MaxCaptureFrames + MaxSoundboardFrames)} :
        TxPump(levels)

NextTx ==
    \/ TxPumps
    \/ TxCapture
    \/ TxQueueSoundboard
    \/ \E muted \in BOOLEAN : TxSetMute(muted)
    \/ \E deafened \in BOOLEAN : TxSetDeafen(deafened)
    \/ TxReconnect
    \/ TxWorkerExit

\* The media tick keeps firing and a working input keeps delivering.
SpecTx == InitTx /\ [][NextTx]_vars /\ WF_vars(TxPumps) /\ WF_vars(TxCapture)

\* C35: no voice frame that is encoded and sent while the runtime is muted
\* carries captured microphone samples, soundboard audio or not.
C35_MutedSendsNoMic ==
    \A i \in 1..Len(tx.sent) : tx.sent[i].muted => ~tx.sent[i].mic

\* The utterance is open and the latest pump gated no frame open.
UtteranceTrailing == tx.worker = "live" /\ tx.transmitting /\ ~tx.gated

\* The utterance has been closed, or a frame has been gated open again, or
\* the worker has returned.
UtteranceClosedOrResumed == ~tx.transmitting \/ tx.gated \/ tx.worker = "exited"

\* C38: once transmitting is true and no further frame is gated open, the
\* terminator is eventually sent and transmitting eventually becomes false,
\* with or without a working input capture.
C38_TerminatorFollows == UtteranceTrailing ~> UtteranceClosedOrResumed

\* With a working input capture the utterance is always closed.
TerminatorFollowsWithCapture ==
    (tx.input_capture /\ UtteranceTrailing) ~> UtteranceClosedOrResumed

\* The worker takes a command other than Disconnect off the channel.
CommandTaken ==
    /\ command_queue # <<>>
    /\ Head(command_queue) \in Commands
    /\ command_queue' = Tail(command_queue)

\* C36: no accepted command is silently discarded: a command leaves the
\* channel only in the command arm of the inner loop, which applies it to
\* the live session; in every other state of the worker it stays pending.
C36_NoCommandDiscarded == [][CommandTaken => pc = "live"]_vars

\* The stream of the session holds frames, its last packet is at least the
\* idle timeout old, and collect_decode_actions emits nothing for it and
\* leaves it as it is.  The clock only moves on, so every later drain does
\* the same while the speaker sends nothing: the frames stay buffered and
\* cleanup_idle_inbound_streams, which wants buffered empty, keeps the stream.
StreamStuck(s) ==
    LET stream == inbound.streams[s]
        r == collect_for_stream(stream, inbound.now)
    IN  /\ ~inbound.ended
        /\ stream.present
        /\ inbound.now - stream.last_packet_at >= INBOUND_STREAM_IDLE_TIMEOUT_MS
        /\ stream.buffered # {}
        /\ r.diverged = "no"
        /\ r.actions = <<>>
        /\ r.stream = stream

\* C37: every frame accepted into a jitter buffer is eventually emitted or
\* skipped past, and the stream of a speaker who has stopped sending is
\* eventually reaped with its decoder: no idle stream is left holding frames
\* that no drain will ever take.
C37_NoStreamStuck == \A s \in Sessions : ~StreamStuck(s)

\* C39: while the worker is in its inner loop the transmitting flag of the
\* shared SelfEvent equals MediaRuntime.transmitting, after a reconnect too,
\* and once the worker has returned the shared flag is false.
C39_SharedTransmittingAgrees ==
    /\ tx.worker = "live" => tx.shared_transmitting = tx.transmitting
    /\ tx.worker = "exited" => ~tx.shared_transmitting

\* The server's echo of the mute state has been applied: the roster has the
\* self user, muted as the shared SelfEvent says.
MuteEchoed ==
    /\ roster.self_session # NoSession
    /\ roster.users[roster.self_session].present
    /\ roster.users[roster.self_session].muted = self_state.muted

\* The control packet says nothing about muting.
CarriesNoMute(msg) == ~msg.has_mute /\ ~msg.has_self_mute

\* C40: once the server has echoed the mute state of a SetMute, the muted
\* flag of the shared SelfEvent stays as it is until the next SetMute or
\* SetDeafen, whatever other control packets arrive: handling a packet that
\* carries no mute field leaves it unchanged.
C40_MutedKeptBetweenCommands ==
    [][(MuteEchoed /\ HandlerReturned /\ CarriesNoMute(handler_msg)) =>
           self_state'.muted = self_state.muted]_vars

====
